---- MODULE Spec2Model ----
(***************************************************************************)
(* Model of the Age plugin (src/age.py): the progression state machine of  *)
(* class Age, its host callbacks (on_loaded, on_epoch, on_handshake) and   *)
(* its persistence (save_data / load_data).                                *)
(***************************************************************************)
EXTENDS Integers, Sequences, FiniteSets, TLC

(***************************************************************************)
(* Python float arithmetic.  The code computes int(points * 1.2),          *)
(* int(points * multiplier) and int((inactive / float(interval)) * amount) *)
(* in IEEE-754 binary64.  A float is modelled as [m, e]: m is the 53-bit   *)
(* significand, most significant bit first (m[1] = 1), and the value is    *)
(* m * 2^(e - 52).  Division and multiplication round to nearest, ties to  *)
(* even, as the hardware does; int() truncates.                            *)
(***************************************************************************)
MantBits == 53

\* The long division and the product below work on ChunkBits bits at a
\* time, in machine integers: their operands stay below 2^17.
ChunkBits == 13

Pow2(n) == 2 ^ n

\* Largest k with d * 2^k <= a  (a >= d >= 1).
RECURSIVE ShiftUp(_, _)
ShiftUp(a, d) == IF 2 * d <= a THEN 1 + ShiftUp(a, 2 * d) ELSE 0

\* Smallest k with a * 2^k >= d  (a >= 1).
RECURSIVE ShiftDown(_, _)
ShiftDown(a, d) == IF a >= d THEN 0 ELSE 1 + ShiftDown(2 * a, d)

\* The k binary digits of q < 2^k, most significant first.
Bits(q, k) == [i \in 1..k |-> (q \div Pow2(k - i)) % 2]

\* The digits of c >= 0 without leading zeros (<<>> for 0).
BitsOf(c) == IF c = 0 THEN <<>> ELSE Bits(c, ShiftUp(c, 1) + 1)

\* Value of bits[i..Len(bits)] appended to the value acc of the bits before.
RECURSIVE BitsToIntFrom(_, _, _)
BitsToIntFrom(bits, i, acc) ==
    IF i > Len(bits) THEN acc ELSE BitsToIntFrom(bits, i + 1, 2 * acc + bits[i])

\* Value of a bit string, most significant bit first.
BitsToInt(bits) == BitsToIntFrom(bits, 1, 0)

\* n quotient bits of r/d by long division (0 <= r < d).
RECURSIVE DivBits(_, _, _)
DivBits(r, d, n) ==
    IF n = 0 THEN <<>>
    ELSE LET k == IF n < ChunkBits THEN n ELSE ChunkBits
             t == r * Pow2(k)
         IN  Bits(t \div d, k) \o DivBits(t % d, d, n - k)

\* The remainder left after those n bits.
RECURSIVE DivRem(_, _, _)
DivRem(r, d, n) ==
    IF n = 0 THEN r
    ELSE LET k == IF n < ChunkBits THEN n ELSE ChunkBits
         IN  DivRem((r * Pow2(k)) % d, d, n - k)

AllOnes(bits) == \A i \in 1..Len(bits) : bits[i] = 1

\* bits + 1 (most significant bit first); the carry out is dropped.
IncBits(bits) ==
    LET zeros == {i \in 1..Len(bits) : bits[i] = 0}
        z     == IF zeros = {} THEN 0 ELSE CHOOSE i \in zeros : \A k \in zeros : k <= i
    IN  [i \in 1..Len(bits) |-> IF i < z THEN bits[i] ELSE IF i = z THEN 1 ELSE 0]

\* Round a significand of Len(bits) >= MantBits bits (leading bit 1, value
\* bits * 2^(e - Len(bits) + 1), sticky = some lower bit is set) to binary64.
RoundFloat(bits, sticky, e) ==
    LET L     == Len(bits)
        head  == SubSeq(bits, 1, MantBits)
        guard == IF L > MantBits THEN bits[MantBits + 1] ELSE 0
        rest  == sticky \/ \E i \in (MantBits + 2)..L : bits[i] = 1
        up    == guard = 1 /\ (rest \/ head[MantBits] = 1)
    IN  IF ~up THEN [m |-> head, e |-> e]
        ELSE IF AllOnes(head)
             THEN [m |-> <<1>> \o [i \in 1..(MantBits - 1) |-> 0], e |-> e + 1]
             ELSE [m |-> IncBits(head), e |-> e]

\* float(a) / float(b) for integers a >= 1, b >= 1.
FloatDiv(a, b) ==
    LET up  == IF a >= b THEN ShiftUp(a, b) ELSE 0
        dn  == IF a >= b THEN 0 ELSE ShiftDown(a, b)
        num == a * Pow2(dn)
        den == b * Pow2(up)
        q   == <<1>> \o DivBits(num - den, den, MantBits)
    IN  RoundFloat(q, DivRem(num - den, den, MantBits) > 0, up - dn)

\* The product of the significand m[1..hi] with n, plus the carry from the
\* bits below, as a bit string, most significant bit first: the product of the lowest chunk of m[1..hi] with n, plus the
\* carry, gives the chunk's bits and the carry into the rest; the last
\* carry gives the leading bits.
RECURSIVE MulBits(_, _, _, _)
MulBits(m, hi, n, carry) ==
    IF hi = 0 THEN BitsOf(carry)
    ELSE LET lo == IF hi > ChunkBits THEN hi - ChunkBits + 1 ELSE 1
             k  == hi - lo + 1
             t  == BitsToInt(SubSeq(m, lo, hi)) * n + carry
         IN  MulBits(m, lo - 1, n, t \div Pow2(k)) \o Bits(t % Pow2(k), k)

\* int(x * n) for a float x > 0 and an integer n >= 0: the exact product is
\* rounded to binary64, then truncated toward zero.
FloatMulTrunc(x, n) ==
    IF n = 0 THEN 0
    ELSE LET p == MulBits(x.m, MantBits, n, 0)
             y == RoundFloat(p, FALSE, x.e + Len(p) - MantBits)
         IN  IF y.e < 0 THEN 0 ELSE BitsToInt(SubSeq(y.m, 1, y.e + 1))

(***************************************************************************)
(* Python values.  A value that arrives in a capture payload, or sits in a *)
(* set of seen identifiers, carries its type: t is "str", "int", "none" or *)
(* "list"; v is a sequence of atoms.  A str is the sequence of its parts   *)
(* between ':' separators ('' is <<"">>, as ''.split(':') is ['']); an int *)
(* is <<its decimal text>>; a list is the sequence of its elements.        *)
(***************************************************************************)
PyStr(parts) == [t |-> "str",  v |-> parts]
PyInt(n)     == [t |-> "int",  v |-> <<ToString(n)>>]
PyNone       == [t |-> "none", v |-> <<>>]
PyList(xs)   == [t |-> "list", v |-> xs]

EmptyStr == <<"">>

\* A key that is not in a mapping (dict.get then returns its default).
Missing == [t |-> "missing", v |-> <<>>]

Max(a, b) == IF a >= b THEN a ELSE b

\* dict.get(k, default) on a mapping modelled as a function.
Get(d, k, default) == IF k \in DOMAIN d THEN d[k] ELSE default

\* The payload field ap.get(k, default): a key that is present, even with
\* the value None, is returned as it is.
ApGet(ap, k, default) == IF ap[k] = Missing THEN default ELSE ap[k]

MaxInt == 255

\* int(text) for a decimal text: the number whose str() is the text, or -1
\* when there is none (int() raises ValueError).
ParseInt(a) ==
    IF \E n \in 0..MaxInt : ToString(n) = a
    THEN CHOOSE n \in 0..MaxInt : ToString(n) = a
    ELSE -1

\* bool(v)
Truthy(v) ==
    CASE v.t = "str"  -> v.v # EmptyStr
      [] v.t = "int"  -> v.v # <<"0">>
      [] v.t = "list" -> v.v # <<>>
      [] OTHER        -> FALSE

\* Only hashable values can be looked up in, or added to, a set.
Hashable(v) == v.t # "list"

\* str.lower() on one atom: the payload alphabet has these upper-case atoms.
LowerAtom(a) ==
    CASE a = "WPA2" -> "wpa2"
      [] a = "WPA3" -> "wpa3"
      [] a = "WPA"  -> "wpa"
      [] a = "WEP"  -> "wep"
      [] a = "OPEN" -> "open"
      [] a = "AA"   -> "aa"
      [] a = "BB"   -> "bb"
      [] a = "CC"   -> "cc"
      [] a = "DD"   -> "dd"
      [] OTHER      -> a

Lower(parts) == [i \in 1..Len(parts) |-> LowerAtom(parts[i])]

\* Mutant: a value without lower() counts as ''.
OrEmptyLower_lenient(v) ==
    IF Truthy(v) /\ v.t = "str" THEN [raised |-> FALSE, s |-> Lower(v.v)]
    ELSE [raised |-> FALSE, s |-> EmptyStr]

\* (v or '').lower(): the lower-cased text, or "raise" when v is a truthy
\* value without a lower() method (AttributeError).
OrEmptyLower(v) ==
    IF ~Truthy(v) THEN [raised |-> FALSE, s |-> EmptyStr]
    ELSE IF v.t = "str" THEN [raised |-> FALSE, s |-> Lower(v.v)]
    ELSE [raised |-> TRUE, s |-> EmptyStr]

\* str(v) as the f-string of compute_place_hash formats the channel.
StrOf(v) ==
    CASE v.t = "str"  -> v.v
      [] v.t = "int"  -> v.v
      [] v.t = "none" -> <<"None">>
      [] OTHER        -> <<"[">> \o v.v \o <<"]">>

NoOui == <<"no", "ou", "i">>

\* ':'.join(bssid.split(':')[:3]) if bssid and ':' in bssid else <none>
OuiOf(bssid) ==
    IF bssid # EmptyStr /\ Len(bssid) > 1
    THEN SubSeq(bssid, 1, IF Len(bssid) < 3 THEN Len(bssid) ELSE 3)
    ELSE <<>>

channel_to_band(channel) ==
    LET ch == IF channel.t = "int" \/ (channel.t = "str" /\ Len(channel.v) = 1)
              THEN ParseInt(channel.v[1]) ELSE -1
    IN  IF ch = -1 THEN "unk"
        ELSE IF 1 <= ch /\ ch <= 14 THEN "2.4"
        ELSE IF (32 <= ch /\ ch <= 173)
                \/ ch \in {36, 40, 44, 48, 149, 153, 157, 161, 165} THEN "5"
        ELSE IF 1 <= ch - 191 /\ ch - 191 <= 59 THEN "6"
        ELSE "unk"

(***************************************************************************)
(* Title mappings: functions from integer thresholds to labels.            *)
(***************************************************************************)
DEFAULT_AGE_TITLES ==
    [k \in {100, 200, 275, 350, 450, 600, 750, 900, 1050, 1200, 1350, 1500,
            2000, 3000, 4000, 5000, 7000, 10000, 15000, 20000, 30000, 40000,
            55000, 80000, 100000, 111111} |->
        CASE k = 100 -> "Cosmic Hatchling"  [] k = 200 -> "Byte Starling"
          [] k = 275 -> "Signal Spark"      [] k = 350 -> "Signal Seeker"
          [] k = 450 -> "Ping Nomad"        [] k = 600 -> "Packet Voyager"
          [] k = 750 -> "Orbitling"         [] k = 900 -> "Neural Apprentice"
          [] k = 1050 -> "Pulse Pioneer"    [] k = 1200 -> "Quantum Wanderer"
          [] k = 1350 -> "Script Satellite" [] k = 1500 -> "Code Comet"
          [] k = 2000 -> "Wavelength Nomad" [] k = 3000 -> "Protocol Pioneer"
          [] k = 4000 -> "Data Asteroid"    [] k = 5000 -> "Stellar Coder"
          [] k = 7000 -> "Encrypted Voyager" [] k = 10000 -> "WiFi Starborn"
          [] k = 15000 -> "Nebula Navigator" [] k = 20000 -> "Celestial Hacker"
          [] k = 30000 -> "Ethernaut"       [] k = 40000 -> "Binary Constellation"
          [] k = 55000 -> "Quantum Overlord" [] k = 80000 -> "Dark Matter Diver"
          [] k = 100000 -> "Galactic Root"  [] OTHER -> "Singularity Sentinel"]

DEFAULT_STRENGTH_TITLES ==
    [k \in {100, 250, 400, 600, 900, 1200, 1600, 2000, 2500, 3200, 4500, 6000,
            8000, 12000, 18000, 30000, 55555, 111111} |->
        CASE k = 100 -> "Circuit Initiate"   [] k = 250 -> "Pulse Drifter"
          [] k = 400 -> "Bitbreaker"         [] k = 600 -> "Packet Slinger"
          [] k = 900 -> "Firewall Skipper"   [] k = 1200 -> "Deauth Cadet"
          [] k = 1600 -> "Hash Harvester"    [] k = 2000 -> "Spectral Scrambler"
          [] k = 2500 -> "Protocol Predator" [] k = 3200 -> "Cipher Crusher"
          [] k = 4500 -> "WiFi Marauder"     [] k = 6000 -> "Neural Nullifier"
          [] k = 8000 -> "Signal Saboteur"   [] k = 12000 -> "Astral Sniffer"
          [] k = 18000 -> "Quantum Brawler"  [] k = 30000 -> "Rootwave Ronin"
          [] k = 55555 -> "Void Breaker"     [] OTHER -> "Omega Cipherlord"]

DEFAULT_TRAVEL_TITLES ==
    [k \in {0, 50, 150, 300, 600, 1200} |->
        CASE k = 0 -> "Homebody"        [] k = 50 -> "Wanderling"
          [] k = 150 -> "City Stroller" [] k = 300 -> "Road Warrior"
          [] k = 600 -> "Jetsetter"     [] OTHER -> "Globetrotter"]

\* for t in sorted(titles.keys(), reverse=True): if counter >= t: return
\* titles[t]; the loop returns at the first, that is the largest, such key.
RECURSIVE FirstReached(_, _, _, _)
\* Mutant: a threshold counts only once the counter has passed it.
Reached_strictly(counter, t) == counter > t

\* if self.epochs >= t
Reached(counter, t) == counter >= t

FirstReached(titles, keys, counter, floor) ==
    IF keys = {} THEN floor
    ELSE LET t == CHOOSE k \in keys : \A j \in keys : j <= k
         IN  IF Reached(counter, t) THEN titles[t]
             ELSE FirstReached(titles, keys \ {t}, counter, floor)

get_age_title(s) == FirstReached(s.age_titles, DOMAIN s.age_titles, s.epochs, "Unborn")

get_strength_title(s) ==
    FirstReached(s.strength_titles, DOMAIN s.strength_titles, s.train_epochs, "Untrained")

get_travel_title(s) ==
    FirstReached(s.travel_titles, DOMAIN s.travel_titles, s.travel_xp,
                 Get(s.travel_titles, 0, "Homebody"))

\* Mutant: the level is the count of thresholds reached, not one less.
bump_travel_level_unshifted(s) ==
    LET lvl == Cardinality({t \in DOMAIN s.travel_titles : s.travel_xp >= t})
    IN  [s EXCEPT !.travel_level = Max(0, lvl)]

\* lvl counts the thresholds that travel_xp has reached.
bump_travel_level(s) ==
    LET lvl == Cardinality({t \in DOMAIN s.travel_titles : s.travel_xp >= t})
    IN  [s EXCEPT !.travel_level = Max(0, lvl - 1)]

(***************************************************************************)
(* The plugin instance.  `New` is the state __init__ leaves.  None in the  *)
(* optional text fields is the empty sequence; no active event is NoEvent; *)
(* a multiplier (1.0, 2.0 or 0.5, all exact in binary64) is kept as the    *)
(* ratio <<numerator, denominator>>; travel_grid and the coordinates are   *)
(* in units of 0.0001 degree.                                              *)
(***************************************************************************)
NoStr == <<>>

\* The multipliers 1.0, 2.0 and 0.5.
Float_1_0 == <<1, 1>>

Float_2_0 == <<2, 1>>

Float_0_5 == <<1, 2>>

NoEvent == [description |-> "None", multiplier |-> Float_1_0, handshakes |-> 0]

LuckyBreak == [description |-> "Lucky Break", multiplier |-> Float_2_0, handshakes |-> 5]

SignalNoise == [description |-> "Signal Noise", multiplier |-> Float_0_5, handshakes |-> 1]

DefaultPointsMap ==
    [k \in {<<"wpa3">>, <<"wpa2">>, <<"wep">>, <<"wpa">>} |->
        CASE k = <<"wpa3">> -> 10 [] k = <<"wpa2">> -> 5 [] OTHER -> 2]

New ==
    [epochs |-> 0, train_epochs |-> 0, network_points |-> 0,
     handshake_count |-> 0, last_active_epoch |-> 0,
     decay_interval |-> 50, decay_amount |-> 10,
     age_titles |-> DEFAULT_AGE_TITLES,
     strength_titles |-> DEFAULT_STRENGTH_TITLES,
     points_map |-> DefaultPointsMap,
     prev_age_title |-> "Unborn", prev_strength_title |-> "Untrained",
     last_handshake_enc |-> NoStr, last_decay_points |-> 0, streak |-> 0,
     active_event |-> NoEvent, event_handshakes_left |-> 0,
     event_multiplier |-> Float_1_0,
     personality_points |-> [aggro |-> 0, stealth |-> 0, scholar |-> 0],
     night_owl_handshakes |-> 0, enc_types_captured |-> {},
     enable_travel |-> TRUE, travel_xp |-> 0, travel_level |-> 0,
     travel_titles |-> DEFAULT_TRAVEL_TITLES,
     unique_essids |-> {}, unique_bssids |-> {}, unique_ouis |-> {},
     unique_channels |-> {}, unique_bands |-> {}, place_hashes |-> {},
     last_place_hash |-> NoStr, travel_grid |-> 100]

(***************************************************************************)
(* Persistence.  save_data builds the dict `data` from the instance and    *)
(* json.dump writes it; load_data parses the file and reads each key with  *)
(* data.get(key, default).  A set is written as a list of its elements and *)
(* read back with set(list).  The file text is a sequence of blocks, the   *)
(* units in which the buffered writer reaches the disk; it parses only     *)
(* when all NBlocks blocks of one document are there.  Each block records  *)
(* the thread that wrote it.                                               *)
(***************************************************************************)
NBlocks == 2

\* list(a_set): the elements in some order.
RECURSIVE ListOf(_)
ListOf(S) ==
    IF S = {} THEN <<>>
    ELSE LET x == CHOOSE y \in S : TRUE IN <<x>> \o ListOf(S \ {x})

\* set(a_list)
SetOf(xs) == {xs[i] : i \in 1..Len(xs)}

\* JSON encoding of a Python value and its decoding.
JsonOf(v) ==
    CASE v.t = "str"  -> [j |-> "string", v |-> v.v]
      [] v.t = "int"  -> [j |-> "number", v |-> v.v]
      [] OTHER        -> [j |-> "null",   v |-> <<>>]

PyOf(x) ==
    CASE x.j = "string" -> [t |-> "str", v |-> x.v]
      [] x.j = "number" -> [t |-> "int", v |-> x.v]
      [] OTHER          -> PyNone

JsonList(S) == LET xs == ListOf(S) IN [i \in 1..Len(xs) |-> JsonOf(xs[i])]

\* A JSON value in the place of a list: an array of items, or a number.
JsonArray(xs) == [array |-> TRUE, items |-> xs]

JsonNumber == [array |-> FALSE, items |-> <<>>]

PySet(xs) == {PyOf(xs[i]) : i \in 1..Len(xs)}

\* The dict `data` of save_data.
Snapshot(s) ==
    [epochs |-> s.epochs,
     train_epochs |-> s.train_epochs,
     points |-> s.network_points,
     handshakes |-> s.handshake_count,
     last_active |-> s.last_active_epoch,
     prev_age |-> get_age_title(s),
     prev_strength |-> get_strength_title(s),
     streak |-> s.streak,
     night_owl_handshakes |-> s.night_owl_handshakes,
     enc_types_captured |-> JsonArray(ListOf(s.enc_types_captured)),
     personality_aggro |-> s.personality_points.aggro,
     personality_stealth |-> s.personality_points.stealth,
     personality_scholar |-> s.personality_points.scholar,
     travel_xp |-> s.travel_xp,
     travel_level |-> s.travel_level,
     unique_essids |-> JsonArray(JsonList(s.unique_essids)),
     unique_bssids |-> JsonArray(ListOf(s.unique_bssids)),
     unique_ouis |-> JsonArray(ListOf(s.unique_ouis)),
     unique_channels |-> JsonArray(JsonList(s.unique_channels)),
     unique_bands |-> JsonArray(ListOf(s.unique_bands)),
     place_hashes |-> JsonArray(ListOf(s.place_hashes)),
     last_place_hash |-> s.last_place_hash]

NoFile == [exists |-> FALSE, text |-> <<>>]

\* The blocks json.dump produces for a document.
Block(i, doc, by) == [part |-> i, doc |-> doc, by |-> by]

Blocks(doc) == [i \in 1..NBlocks |-> Block(i, doc, "main")]

\* json.load: the text is one whole document, or the parse raises.
Parses(text) ==
    /\ Len(text) = NBlocks
    /\ \A i \in 1..NBlocks : text[i].part = i /\ text[i].doc = text[1].doc

\* A parsed document is a JSON object (a mapping from keys to values) or
\* some other JSON value, here the empty array, on which data.get raises.
IsObject(doc) == DOMAIN doc # {"array", "items"}

\* The keys load_data passes to set(), in the order of the code; set()
\* raises TypeError on a value that is not iterable.
SetKeys ==
    <<"enc_types_captured", "unique_essids", "unique_bssids", "unique_ouis",
      "unique_channels", "unique_bands", "place_hashes">>

Uniterable(data, k) == k \in DOMAIN data /\ ~data[k].array

\* The position in SetKeys of the set() call that raises, or
\* Len(SetKeys) + 1 when none does.
FirstRaise(data) ==
    LET bad == {i \in 1..Len(SetKeys) : Uniterable(data, SetKeys[i])}
    IN  IF bad = {} THEN Len(SetKeys) + 1
        ELSE CHOOSE i \in bad : \A k \in bad : i <= k

\* data.get(k, []) for a key whose value is an array.
Items(data, k) == IF k \in DOMAIN data THEN data[k].items ELSE <<>>

\* The assignments of load_data, in the order of the code, from a parsed
\* JSON object; keys the document lacks take the defaults of data.get.  The
\* assignments stop at the first set() call that raises: those before it
\* have been made, those after it have not.
LoadFrom(s, data) ==
    LET stop == FirstRaise(data)
        s1 == [s EXCEPT
                 !.epochs = Get(data, "epochs", 0),
                 !.train_epochs = Get(data, "train_epochs", 0),
                 !.network_points = Get(data, "points", 0),
                 !.handshake_count = Get(data, "handshakes", 0),
                 !.last_active_epoch = Get(data, "last_active", 0)]
        s2 == [s1 EXCEPT !.prev_age_title = Get(data, "prev_age", get_age_title(s1))]
        s3 == [s2 EXCEPT !.prev_strength_title =
                             Get(data, "prev_strength", get_strength_title(s2))]
        s4 == [s3 EXCEPT
                 !.streak = Get(data, "streak", 0),
                 !.night_owl_handshakes = Get(data, "night_owl_handshakes", 0)]
    IN  [s4 EXCEPT
           !.enc_types_captured =
               IF stop > 1 THEN SetOf(Items(data, "enc_types_captured")) ELSE @,
           !.personality_points =
               IF stop > 1
               THEN [aggro   |-> Get(data, "personality_aggro", 0),
                     stealth |-> Get(data, "personality_stealth", 0),
                     scholar |-> Get(data, "personality_scholar", 0)]
               ELSE @,
           !.travel_xp = IF stop > 1 THEN Get(data, "travel_xp", 0) ELSE @,
           !.travel_level = IF stop > 1 THEN Get(data, "travel_level", 0) ELSE @,
           !.unique_essids =
               IF stop > 2 THEN PySet(Items(data, "unique_essids")) ELSE @,
           !.unique_bssids =
               IF stop > 3 THEN SetOf(Items(data, "unique_bssids")) ELSE @,
           !.unique_ouis =
               IF stop > 4 THEN SetOf(Items(data, "unique_ouis")) ELSE @,
           !.unique_channels =
               IF stop > 5 THEN PySet(Items(data, "unique_channels")) ELSE @,
           !.unique_bands =
               IF stop > 6 THEN SetOf(Items(data, "unique_bands")) ELSE @,
           !.place_hashes =
               IF stop > 7 THEN SetOf(Items(data, "place_hashes")) ELSE @,
           !.last_place_hash =
               IF stop > 7 THEN Get(data, "last_place_hash", NoStr) ELSE @]

\* A write of block b at offset i of an open file: the file grows to the
\* offset (the gap, if any, reads as zero bytes) and the block replaces
\* what was there.
Hole == [part |-> 0, doc |-> <<>>, by |-> "hole"]

WriteAt(text, i, b) ==
    [k \in 1..Max(Len(text), i) |->
        IF k = i THEN b ELSE IF k <= Len(text) THEN text[k] ELSE Hole]

\* load_data: nothing happens without a file; a file that does not parse
\* raises inside the try before the first assignment, and so does a
\* document that is not a JSON object.
load_data(s, f) ==
    IF f.exists /\ Parses(f.text) /\ IsObject(f.text[1].doc)
    THEN LoadFrom(s, f.text[1].doc)
    ELSE s

(***************************************************************************)
(* A run of a callback.  The callbacks are sequences of statements on the  *)
(* instance; each is modelled as an operator on a run record R:            *)
(*   self   the instance,       file   the persisted file,                 *)
(*   out    the notifications and log entries the callback has emitted,    *)
(*   saves  one entry per save_data call: the instance at the call, from   *)
(*          which the call builds its document,                            *)
(*   lost   the loss apply_decay computed (-1: the interval not reached),  *)
(*   base, reward, mult  the capture's base reward, final reward and       *)
(*          whether the event multiplier was applied (-1: no capture),     *)
(*   gained the Traveler XP of the capture (-1: none computed),            *)
(*   pre    the points and the streak at the entry of the callback,        *)
(*   arg    the payload of on_handshake, as <<p>> (<<>> in other callbacks),*)
(*   raised the exception that left the callback uncaught ("none": the     *)
(*          callback returned normally),                                   *)
(*   hour   the local hour on_handshake read (-1: it read none),           *)
(*   gps    the location the Traveler block was given (<<>>: none).        *)
(***************************************************************************)
Run(s, f) ==
    [self |-> s, file |-> f, out |-> {}, saves |-> <<>>, lost |-> -1,
     base |-> -1, reward |-> -1, mult |-> FALSE, gained |-> -1,
     pre |-> [points |-> s.network_points, streak |-> s.streak], arg |-> <<>>,
     raised |-> "none", hour |-> -1, gps |-> <<>>]

\* save_data.  io is what the file system does with the write: "ok", or
\* "fail" when open() raises (the error is logged, the file is untouched).
save_data(R, io) ==
    LET data == Snapshot(R.self)
    IN  [R EXCEPT
           !.saves = Append(@, R.self),
           !.file  = IF io = "ok" THEN [exists |-> TRUE, text |-> Blocks(data)] ELSE @,
           !.out   = IF io = "ok" THEN @ ELSE @ \cup {"save_error"}]

\* int(decay_factor * decay_amount) with decay_factor = inactive / float(interval)
points_lost(inactive_epochs, decay_interval, decay_amount) ==
    IF inactive_epochs = 0 THEN 0
    ELSE FloatMulTrunc(FloatDiv(inactive_epochs, decay_interval), decay_amount)

\* Mutant: the subtraction without the clamp.
decayed_points_unclamped(network_points, lostpts) == network_points - lostpts

\* self.network_points = max(0, self.network_points - points_lost)
decayed_points(network_points, lostpts) == Max(0, network_points - lostpts)

\* Mutant: the decay block without the streak reset.
decay_fired_keeps_streak(s, lostpts) ==
    [s EXCEPT !.last_decay_points = lostpts,
              !.last_active_epoch = s.epochs]

\* The block under "if points_lost > 0", up to the save.
decay_fired(s, lostpts) ==
    [s EXCEPT !.last_decay_points = lostpts,
              !.streak = 0,
              !.last_active_epoch = s.epochs]

\* Mutant: decay one tick before the interval has elapsed.
IntervalReached_early(inactive_epochs, decay_interval) ==
    inactive_epochs + 1 >= decay_interval

\* if inactive_epochs >= self.decay_interval
IntervalReached(inactive_epochs, decay_interval) ==
    inactive_epochs >= decay_interval

\* apply_decay up to its call of save_data.  The division by
\* float(self.decay_interval) raises ZeroDivisionError when the interval is
\* 0; nothing in apply_decay catches it.
decay_body(R) ==
    LET s == R.self
        inactive_epochs == s.epochs - s.last_active_epoch
    IN  IF IntervalReached(inactive_epochs, s.decay_interval) /\ s.decay_interval = 0
        THEN [R EXCEPT !.raised = "ZeroDivisionError"]
        ELSE IF IntervalReached(inactive_epochs, s.decay_interval)
        THEN LET lostpts == points_lost(inactive_epochs, s.decay_interval, s.decay_amount)
                 s1 == [s EXCEPT !.network_points = decayed_points(@, lostpts)]
             IN  IF lostpts > 0
                 THEN [R EXCEPT !.self = decay_fired(s1, lostpts),
                                !.out  = @ \cup {"decay"},
                                !.lost = lostpts]
                 ELSE [R EXCEPT !.self = s1, !.lost = lostpts]
        ELSE R

apply_decay(R, io) ==
    LET R1 == decay_body(R)
    IN  IF R1.lost > 0 THEN save_data(R1, io) ELSE R1

\* Mutant: the announcements without the update of the stored titles.
check_achievements_no_update(R) ==
    LET s == R.self
    IN  [R EXCEPT
           !.out = @ \cup (IF get_age_title(s) # s.prev_age_title
                           THEN {"age_title"} ELSE {})
                     \cup (IF get_strength_title(s) # s.prev_strength_title
                           THEN {"strength_title"} ELSE {})]

check_achievements(R) ==
    LET s == R.self
        current_age == get_age_title(s)
        current_strength == get_strength_title(s)
        ageNew == current_age # s.prev_age_title
        strNew == current_strength # s.prev_strength_title
    IN  [R EXCEPT
           !.self = [s EXCEPT
                       !.prev_age_title = IF ageNew THEN current_age ELSE @,
                       !.prev_strength_title = IF strNew THEN current_strength ELSE @],
           !.out = @ \cup (IF ageNew THEN {"age_title"} ELSE {})
                     \cup (IF strNew THEN {"strength_title"} ELSE {})]

\* rand is the outcome of random.random() < 0.05 and random.choice(events):
\* "none", or the event drawn.
handle_random_event(R, rand) ==
    IF rand = "none" THEN R
    ELSE LET ev == IF rand = "lucky" THEN LuckyBreak ELSE SignalNoise
         IN  [R EXCEPT
                !.self = [R.self EXCEPT !.active_event = ev,
                                        !.event_handshakes_left = ev.handshakes,
                                        !.event_multiplier = ev.multiplier],
                !.out = @ \cup {"event"}]

age_checkpoint(R) == [R EXCEPT !.out = @ \cup {"milestone"}]

\* Mutant: a training epoch every 9 ticks.
TrainingDue_ninth(e) == e % 9 = 0

\* if self.epochs % 10 == 0
TrainingDue(e) == e % 10 = 0

\* on_epoch up to its call of apply_decay.
epoch_begin(R) ==
    LET e1 == R.self.epochs + 1
    IN  IF TrainingDue(e1)
        THEN [R EXCEPT !.self.epochs = e1,
                       !.self.train_epochs = @ + 1,
                       !.self.personality_points.scholar = @ + 1]
        ELSE [R EXCEPT !.self.epochs = e1]

\* on_epoch from check_achievements up to the final save_data.
epoch_end(R, rand) ==
    LET R1 == check_achievements(R)
    IN  IF R1.self.epochs % 100 = 0
        THEN age_checkpoint(handle_random_event(R1, rand))
        ELSE R1

\* on_epoch has no try: an exception raised in apply_decay leaves on_epoch
\* at once, after the counters were incremented and before the final save.
on_epoch(R, rand, io) ==
    LET R1 == apply_decay(epoch_begin(R), io)
    IN  IF R1.raised # "none" THEN R1
        ELSE save_data(epoch_end(R1, rand), io)

(***************************************************************************)
(* Traveler helpers.                                                       *)
(***************************************************************************)
NoGps == <<>>

\* round(x / g) for integers x >= 0, g > 0: to nearest, ties to even.
RoundDiv(x, g) ==
    LET q == x \div g
        r == x % g
    IN  IF 2 * r > g \/ (2 * r = g /\ q % 2 = 1) THEN q + 1 ELSE q

\* quantize_ll: f"{qlat:.4f}:{qlon:.4f}"; a grid of 0 raises ZeroDivisionError.
quantize_ll(s, lat, lon) ==
    IF s.travel_grid = 0 THEN [raised |-> TRUE, place |-> NoStr]
    ELSE [raised |-> FALSE,
          place  |-> <<ToString(RoundDiv(lat, s.travel_grid) * s.travel_grid),
                       ToString(RoundDiv(lon, s.travel_grid) * s.travel_grid)>>]

\* gps is what try_read_gps returns: NoGps or <<lat, lon>>.
compute_place_hash(s, ap, gps) ==
    IF gps # NoGps THEN quantize_ll(s, gps[1], gps[2])
    ELSE LET bssid == OrEmptyLower(ApGet(ap, "bssid", PyNone)).s
             oui   == IF OuiOf(bssid) # <<>> THEN OuiOf(bssid) ELSE NoOui
             ch    == ApGet(ap, "channel", PyStr(<<"0">>))
             band  == channel_to_band(ch)
         IN  [raised |-> FALSE, place |-> oui \o <<"-", band, "-">> \o StrOf(ch)]

add_travel_xp(s, xp) ==
    IF xp <= 0 THEN s
    ELSE bump_travel_level([s EXCEPT !.travel_xp = @ + xp])

\* The novelty checks of on_handshake, one statement each.  T carries the
\* instance, the XP gathered so far, the notifications, and whether a
\* statement has raised; once one has, the rest of the try block is skipped.
SeeEssid(T, essid) ==
    IF T.raised THEN T
    ELSE IF ~Hashable(essid) THEN [T EXCEPT !.raised = TRUE]
    ELSE IF essid \notin T.self.unique_essids
         THEN [T EXCEPT !.self.unique_essids = @ \cup {essid}, !.gained = @ + 5]
         ELSE T

SeeBssid(T, bssid) ==
    IF T.raised THEN T
    ELSE IF bssid # EmptyStr /\ bssid \notin T.self.unique_bssids
         THEN [T EXCEPT !.self.unique_bssids = @ \cup {bssid}, !.gained = @ + 2]
         ELSE T

SeeOui(T, oui) ==
    IF T.raised THEN T
    ELSE IF oui # <<>> /\ oui \notin T.self.unique_ouis
         THEN [T EXCEPT !.self.unique_ouis = @ \cup {oui}, !.gained = @ + 3]
         ELSE T

SeeChannel(T, channel) ==
    IF T.raised \/ ~Truthy(channel) THEN T
    ELSE IF ~Hashable(channel) THEN [T EXCEPT !.raised = TRUE]
    ELSE IF channel \notin T.self.unique_channels
         THEN [T EXCEPT !.self.unique_channels = @ \cup {channel}, !.gained = @ + 1]
         ELSE T

SeeBand(T, band) ==
    IF T.raised THEN T
    ELSE IF band \notin T.self.unique_bands
         THEN [T EXCEPT !.self.unique_bands = @ \cup {band}, !.gained = @ + 3,
                        !.out = @ \cup {"new_band"}]
         ELSE T

SeePlace(T, ap, gps) ==
    IF T.raised THEN T
    ELSE LET ph == compute_place_hash(T.self, ap, gps)
         IN  IF ph.raised THEN [T EXCEPT !.raised = TRUE]
             ELSE IF ph.place \notin T.self.place_hashes
                  THEN [T EXCEPT !.self.place_hashes = @ \cup {ph.place},
                                 !.self.last_place_hash = ph.place,
                                 !.gained = @ + 10,
                                 !.out = @ \cup {"new_place"}]
                  ELSE T

TravelXp(T) ==
    IF T.raised THEN [T EXCEPT !.out = @ \cup {"travel_error"}]
    ELSE IF T.gained > 0
         THEN LET s1 == add_travel_xp(T.self, T.gained)
              IN  [T EXCEPT !.self = s1,
                            !.out = @ \cup (IF s1.travel_level > T.self.travel_level
                                            THEN {"level_up"} ELSE {})]
         ELSE T

traveler(R, ap, essid, bssid, oui, channel, band, gps) ==
    LET T0 == [self |-> R.self, gained |-> 0, out |-> R.out, raised |-> FALSE]
        T  == TravelXp(SeePlace(SeeBand(SeeChannel(SeeOui(SeeBssid(
                  SeeEssid(T0, essid), bssid), oui), channel), band), ap, gps))
    IN  [R EXCEPT !.self = T.self, !.out = T.out, !.gained = T.gained,
                  !.gps = gps]

(***************************************************************************)
(* on_handshake.  p is the payload: nargs positional arguments after the   *)
(* agent, of which the third is ap; ap.isdict tells whether it is a dict,  *)
(* and its four fields are Python values or Missing.  hour is              *)
(* time.localtime().tm_hour, gps the location source.                      *)
(***************************************************************************)
streak_threshold == 5

\* streak_bonus = 1.2: the literal is the double nearest to 6/5, which is
\* what the correctly rounded division of 6.0 by 5.0 yields.
streak_bonus == FloatDiv(6, 5)

\* int(points * streak_bonus)
StreakBonus(points) == FloatMulTrunc(streak_bonus, points)

\* int(points * self.event_multiplier)
EventBonus(points, multiplier) ==
    FloatMulTrunc(FloatDiv(multiplier[1], multiplier[2]), points)

\* Mutant: the bonus from the capture after the threshold only.
StreakReached_after(streak) == streak > streak_threshold

\* if self.streak >= streak_threshold
StreakReached(streak) == streak >= streak_threshold

\* if self.active_event and self.event_handshakes_left > 0
EventActive(s) == s.active_event # NoEvent /\ s.event_handshakes_left > 0

\* Mutant: the use is counted but the exhausted event is never cleared.
use_event_no_clear(s) == [s EXCEPT !.event_handshakes_left = @ - 1]

\* The body of that if, after the multiplication: one use is consumed and
\* the event is cleared with its last use.
use_event(s) ==
    LET left1 == s.event_handshakes_left - 1
    IN  [s EXCEPT !.event_handshakes_left = left1,
                  !.active_event = IF left1 = 0 THEN NoEvent ELSE @,
                  !.event_multiplier = IF left1 = 0 THEN Float_1_0 ELSE @]

\* The statements from "Base points" to "Apply points & core bookkeeping".
reward_capture(R, enc) ==
    LET s       == R.self
        base    == Get(s.points_map, enc, 1)
        streak1 == s.streak + 1
        p1      == IF StreakReached(streak1) THEN StreakBonus(base) ELSE base
        active  == EventActive(s)
        p2      == IF active THEN EventBonus(p1, s.event_multiplier) ELSE p1
        s1      == IF active THEN use_event(s) ELSE s
    IN  [R EXCEPT
           !.self = [s1 EXCEPT
                       !.streak = streak1,
                       !.network_points = @ + p2,
                       !.handshake_count = @ + 1,
                       !.last_active_epoch = s.epochs,
                       !.last_handshake_enc = enc,
                       !.personality_points.aggro = @ + 1],
           !.out = @ \cup (IF StreakReached(streak1) THEN {"streak_bonus"} ELSE {}),
           !.base = base, !.reward = p2, !.mult = active]

\* Mutant: the night-owl bonus for every count from 10 on.
NightOwlReached_from(n) == n >= 10

\* if self.night_owl_handshakes == 10
NightOwlReached(n) == n = 10

\* Mutant: the set of kinds is complete when it holds every key of the map.
KindsComplete_covering(encs, points_map) == DOMAIN points_map \subseteq encs

\* if self.enc_types_captured == set(self.points_map.keys())
KindsComplete(encs, points_map) == encs = DOMAIN points_map

\* "Secret achievements": the night-owl counter and the complete set of kinds.
secret_achievements(R, enc, hour) ==
    LET s     == R.self
        night == 2 <= hour /\ hour < 4
        owl1  == IF night THEN s.night_owl_handshakes + 1 ELSE s.night_owl_handshakes
        owlB  == night /\ NightOwlReached(owl1)
        encs1 == s.enc_types_captured \cup {enc}
        king  == KindsComplete(encs1, s.points_map)
    IN  [R EXCEPT
           !.self = [s EXCEPT
                       !.night_owl_handshakes = owl1,
                       !.enc_types_captured = encs1,
                       !.network_points = @ + (IF owlB THEN 50 ELSE 0)
                                            + (IF king THEN 100 ELSE 0)],
           !.out = @ \cup (IF owlB THEN {"night_owl"} ELSE {})
                     \cup (IF king THEN {"crypto_king"} ELSE {}),
           !.hour = hour]

\* on_handshake up to its call of save_data; reward stays -1 when the
\* payload is dropped before any statement has changed the instance.
handshake_body(R0, p, hour, gps) ==
    LET R == [R0 EXCEPT !.arg = <<p>>] IN
    IF p.nargs < 3 THEN [R EXCEPT !.out = @ \cup {"warn_args"}]
    ELSE IF ~p.ap.isdict THEN [R EXCEPT !.out = @ \cup {"warn_ap"}]
    ELSE LET ap      == p.ap
             encL    == OrEmptyLower(ApGet(ap, "encryption", PyStr(EmptyStr)))
             essid   == ApGet(ap, "essid", PyStr(<<"unknown">>))
             bssidL  == OrEmptyLower(ApGet(ap, "bssid", PyNone))
             channel == ApGet(ap, "channel", PyStr(<<"0">>))
             band    == channel_to_band(channel)
             oui     == OuiOf(bssidL.s)
         IN  IF encL.raised \/ bssidL.raised
             THEN [R EXCEPT !.out = @ \cup {"handshake_error"}]
             ELSE LET R1 == secret_achievements(reward_capture(R, encL.s), encL.s, hour)
                  IN  IF R1.self.enable_travel
                      THEN traveler(R1, ap, essid, bssidL.s, oui, channel, band, gps)
                      ELSE R1

on_handshake(R, p, hour, gps, io) ==
    LET R1 == handshake_body(R, p, hour, gps)
    IN  IF R1.reward >= 0 THEN save_data(R1, io) ELSE R1

(***************************************************************************)
(* on_loaded.  opts is self.options, a mapping that holds the configured   *)
(* keys only; pcaps is the number of .pcap files in the handshake          *)
(* directory, -1 when the directory does not exist.                        *)
(***************************************************************************)
initialize_handshakes(R, pcaps, io) ==
    IF R.self.handshake_count = 0 /\ pcaps >= 0
    THEN save_data([R EXCEPT !.self.handshake_count = pcaps], io)
    ELSE R

\* The options of on_loaded that the progression reads.
configure(s, opts) ==
    [s EXCEPT
       !.decay_interval = Get(opts, "decay_interval", @),
       !.decay_amount = Get(opts, "decay_amount", @),
       !.age_titles = Get(opts, "age_titles", @),
       !.strength_titles = Get(opts, "strength_titles", @),
       !.points_map = Get(opts, "points_map", @),
       !.enable_travel = Get(opts, "enable_travel", @),
       !.travel_grid = Get(opts, "travel_grid", @),
       !.travel_titles = Get(opts, "travel_titles", @)]

on_loaded(R, opts, pcaps, io) ==
    initialize_handshakes(
        [R EXCEPT !.self = load_data(configure(R.self, opts), R.file)], pcaps, io)

(***************************************************************************)
(* The state machine.                                                      *)
(*   self       the plugin instance                                        *)
(*   file       the persisted state file                                   *)
(*   options    the host's configuration for the plugin                    *)
(*   loaded     on_loaded has run in this process                          *)
(*   last       what the last callback did (its name and the fields of its *)
(*              run record other than self and file)                       *)
(*   hist       history of the bonus event: the event installed last,      *)
(*              whether it replaced one that had uses left, and the number *)
(*              of captures whose reward it has multiplied                 *)
(*   thr        the callback threads of the concurrent specification       *)
(*   data_lock  the holder of self.data_lock, or "free"                    *)
(***************************************************************************)
VARIABLES self, file, options, loaded, last, hist, thr, data_lock

vars == <<self, file, options, loaded, last, hist, thr, data_lock>>

Threads == {"epoch", "handshake"}

Idle == [pc |-> "idle", call |-> 0, data |-> <<>>, pos |-> 0]

Report(op, R) ==
    [op |-> op, out |-> R.out, saves |-> R.saves, lost |-> R.lost,
     base |-> R.base, reward |-> R.reward, mult |-> R.mult, gained |-> R.gained,
     pre |-> R.pre, arg |-> R.arg, raised |-> R.raised,
     hour |-> R.hour, gps |-> R.gps]

NoHist == [installed |-> NoEvent, overwrote |-> FALSE, uses |-> 0]

\* The history after a callback that started from instance s: an
\* installation starts a new count, a multiplied capture adds one.
Recorded(h, s, R) ==
    IF "event" \in R.out
    THEN [installed |-> R.self.active_event,
          overwrote |-> s.active_event # NoEvent /\ s.event_handshakes_left > 0,
          uses      |-> 0]
    ELSE IF R.mult THEN [h EXCEPT !.uses = @ + 1]
    ELSE h

\* The effect of a callback that ran to completion on this thread alone.
Returns(op, R) ==
    /\ self' = R.self
    /\ file' = R.file
    /\ last' = Report(op, R)
    /\ hist' = Recorded(hist, self, R)
    /\ UNCHANGED <<options, thr, data_lock>>

InitWith(opts) ==
    /\ self = New
    /\ file = NoFile
    /\ options = opts
    /\ loaded = FALSE
    /\ last = Report("init", Run(New, NoFile))
    /\ hist = NoHist
    /\ thr = [t \in Threads |-> Idle]
    /\ data_lock = "free"

\* Bounds of the model.
MaxEpochs == 12

MaxCaptures == 5

\* The configuration of the short runs: small thresholds, so that decay,
\* title changes and Traveler levels all happen within MaxEpochs ticks.
SmallOptions ==
    [decay_interval |-> 3, decay_amount |-> 4,
     age_titles |-> (2 :> "Hatchling" @@ 5 :> "Starling"),
     strength_titles |-> (1 :> "Initiate"),
     points_map |-> (<<"wpa2">> :> 5 @@ <<"wpa3">> :> 10),
     travel_titles |-> (0 :> "Homebody" @@ 20 :> "Wanderling" @@ 40 :> "Stroller")]

\* Capture payloads.
Ap(enc, essid, bssid, channel) ==
    [isdict |-> TRUE, encryption |-> enc, essid |-> essid, bssid |-> bssid,
     channel |-> channel]

ApHome == Ap(PyStr(<<"WPA2">>), PyStr(<<"home">>),
             PyStr(<<"AA", "BB", "CC", "00", "00", "01">>), PyInt(6))

ApCafe == Ap(PyStr(<<"wpa3">>), PyStr(<<"cafe">>),
             PyStr(<<"dd", "bb", "cc", "00", "00", "02">>), PyStr(<<"36">>))

\* The same access point announcing an encryption the points map lacks.
ApOpen == [ApHome EXCEPT !.encryption = PyStr(<<"OPEN">>)]

ApBare == Ap(Missing, Missing, Missing, Missing)

ApEncInt == Ap(PyInt(5), PyStr(<<"home">>),
               PyStr(<<"AA", "BB", "CC", "00", "00", "01">>), PyInt(6))

ApEssidList == Ap(PyStr(<<"WPA2">>), PyList(<<"home">>),
                  PyStr(<<"AA", "BB", "CC", "00", "00", "01">>), PyInt(6))

ApBssidInt == [ApHome EXCEPT !.bssid = PyInt(7)]

ApChannelList == [ApHome EXCEPT !.channel = PyList(<<"6">>)]

NotADict == [ApBare EXCEPT !.isdict = FALSE]

Payloads ==
    {[nargs |-> 3, ap |-> a] : a \in {ApHome, ApCafe, ApBare, ApEncInt, ApBssidInt,
                                        ApEssidList, ApChannelList, NotADict}}
    \cup {[nargs |-> 2, ap |-> ApHome]}

Hours == {3, 12}

GpsFixes == {NoGps, <<374210, 1220840>>}

\* The handshake directory at start-up: absent, or holding no capture yet.
Pcaps == {-1, 0}

OnLoaded ==
    /\ ~loaded
    /\ loaded' = TRUE
    /\ \E pcaps \in Pcaps :
          Returns("on_loaded", on_loaded(Run(self, file), options, pcaps, "ok"))

\* An epoch tick, for at most maxE ticks.  random.random() is called in the
\* ticks that are multiples of 100 only; rands are its possible outcomes.
Tick(maxE, rands) ==
    /\ loaded
    /\ self.epochs < maxE
    /\ UNCHANGED loaded
    /\ \E rand \in (IF (self.epochs + 1) % 100 = 0 THEN rands ELSE {"none"}) :
          Returns("on_epoch", on_epoch(Run(self, file), rand, "ok"))

\* A capture notification, for at most maxC processed captures.
Capture(maxC, payloads, hours, fixes) ==
    /\ loaded
    /\ self.handshake_count < maxC
    /\ UNCHANGED loaded
    /\ \E p \in payloads, hour \in hours, gps \in fixes :
          Returns("on_handshake", on_handshake(Run(self, file), p, hour, gps, "ok"))

Rands == {"none", "lucky", "noise"}

GoodPayloads == {[nargs |-> 3, ap |-> a] : a \in {ApHome, ApCafe}}

OnEpoch == Tick(MaxEpochs, Rands)

OnHandshake == Capture(MaxCaptures, GoodPayloads, {12}, {NoGps})

Init == InitWith(SmallOptions)

Next == OnLoaded \/ OnEpoch \/ OnHandshake

Spec == Init /\ [][Next]_vars

(***************************************************************************)
(* The long runs: enough ticks for the random events of epochs 100 and     *)
(* 200, with the captures of one access point.                             *)
(***************************************************************************)
LongEpochs == 201

LongCaptures == 5

LongPayloads == {[nargs |-> 3, ap |-> ApHome]}

LongEpoch == Tick(LongEpochs, Rands)

LongHandshake == Capture(LongCaptures, LongPayloads, {12}, {NoGps})

NextLong == OnLoaded \/ LongEpoch \/ LongHandshake

SpecLong == Init /\ [][NextLong]_vars

(***************************************************************************)
(* The runs up to the first random event, with captures of a known and of  *)
(* an unknown encryption.                                                  *)
(***************************************************************************)
EventEpochs == 101

EventCaptures == 5

EventPayloads == {[nargs |-> 3, ap |-> a] : a \in {ApHome, ApOpen}}

EventEpoch == Tick(EventEpochs, Rands)

EventHandshake == Capture(EventCaptures, EventPayloads, {12}, {NoGps})

NextEvent == OnLoaded \/ EventEpoch \/ EventHandshake

SpecEvent == Init /\ [][NextEvent]_vars

(***************************************************************************)
(* The callbacks on two host threads, with save_data and the process       *)
(* itself taken step by step.  The statements of a callback between two    *)
(* save_data calls are one step.  save_data is: build the document from    *)
(* the instance (outside the lock), enter "with self.data_lock", open the  *)
(* file for writing (which truncates it), write the document block by      *)
(* block at the handle's own offset, close the file and leave the lock.    *)
(* The process can stop at any instant; the file stays as it is and the    *)
(* next process starts from a new instance and on_loaded.                  *)
(*   thr[t].pc    idle, save (save_data called), lock (document built),    *)
(*                open (lock held), write (file open), mid (the epoch tick *)
(*                between apply_decay and check_achievements)              *)
(*   thr[t].call  which save_data call of the callback is running          *)
(*   thr[t].data  the document built by the call                           *)
(*   thr[t].pos   the number of blocks written through the handle          *)
(*   last.saves   the instance that the last completed save_data call      *)
(*                restores when its document is loaded                     *)
(***************************************************************************)
SaveEpochs == 4

SaveCaptures == 2

Calling(n) == [Idle EXCEPT !.pc = "save", !.call = n]

\* on_epoch up to the save_data call of apply_decay, or up to
\* check_achievements when apply_decay does not save.
EpochBegin ==
    /\ loaded
    /\ thr.epoch.pc = "idle"
    /\ self.epochs < SaveEpochs
    /\ LET R == decay_body(epoch_begin(Run(self, file)))
       IN  /\ self' = R.self
           /\ thr' = [thr EXCEPT !.epoch = IF R.lost > 0 THEN Calling(1)
                                           ELSE [Idle EXCEPT !.pc = "mid"]]
    /\ UNCHANGED <<file, options, loaded, last, hist, data_lock>>

\* on_epoch from check_achievements to its final save_data call.
EpochEnd ==
    /\ thr.epoch.pc = "mid"
    /\ self' = epoch_end(Run(self, file), "none").self
    /\ thr' = [thr EXCEPT !.epoch = Calling(2)]
    /\ UNCHANGED <<file, options, loaded, last, hist, data_lock>>

\* on_handshake up to its save_data call.
HandshakeBegin ==
    /\ loaded
    /\ thr.handshake.pc = "idle"
    /\ self.handshake_count < SaveCaptures
    /\ \E p \in LongPayloads :
          LET R == handshake_body(Run(self, file), p, 12, NoGps)
          IN  /\ self' = R.self
              /\ thr' = [thr EXCEPT !.handshake = IF R.reward >= 0 THEN Calling(1)
                                                  ELSE Idle]
    /\ UNCHANGED <<file, options, loaded, last, hist, data_lock>>

\* data = {...}
BuildData(t) ==
    /\ thr[t].pc = "save"
    /\ thr' = [thr EXCEPT ![t].pc = "lock", ![t].data = Snapshot(self)]
    /\ UNCHANGED <<self, file, options, loaded, last, hist, data_lock>>

\* Mutant: entering the write section without waiting for the lock.
Acquire_without_waiting(t) ==
    /\ thr[t].pc = "lock"
    /\ data_lock' = t
    /\ thr' = [thr EXCEPT ![t].pc = "open"]
    /\ UNCHANGED <<self, file, options, loaded, last, hist>>

\* with self.data_lock: (entry)
Acquire(t) ==
    /\ thr[t].pc = "lock"
    /\ data_lock = "free"
    /\ data_lock' = t
    /\ thr' = [thr EXCEPT ![t].pc = "open"]
    /\ UNCHANGED <<self, file, options, loaded, last, hist>>

\* open(self.data_path, 'w')
Open(t) ==
    /\ thr[t].pc = "open"
    /\ file' = [exists |-> TRUE, text |-> <<>>]
    /\ thr' = [thr EXCEPT ![t].pc = "write", ![t].pos = 0]
    /\ UNCHANGED <<self, options, loaded, last, hist, data_lock>>

\* json.dump(data, f, indent=2), one block reaching the file
Write(t) ==
    /\ thr[t].pc = "write"
    /\ thr[t].pos < NBlocks
    /\ file' = [file EXCEPT
                  !.text = WriteAt(@, thr[t].pos + 1,
                                   Block(thr[t].pos + 1, thr[t].data, t))]
    /\ thr' = [thr EXCEPT ![t].pos = @ + 1]
    /\ UNCHANGED <<self, options, loaded, last, hist, data_lock>>

\* The exits of the two with blocks: the file is closed, the lock released,
\* and the callback goes on after the call.
Close(t) ==
    /\ thr[t].pc = "write"
    /\ thr[t].pos = NBlocks
    /\ data_lock' = "free"
    /\ thr' = [thr EXCEPT ![t] = IF t = "epoch" /\ thr[t].call = 1
                                 THEN [Idle EXCEPT !.pc = "mid"] ELSE Idle]
    /\ last' = [last EXCEPT
                  !.op = "save_data",
                  !.saves = <<load_data(configure(New, options),
                                        [exists |-> TRUE, text |-> Blocks(thr[t].data)])>>]
    /\ UNCHANGED <<self, file, options, loaded, hist>>

\* The process stops: its threads, its lock and its instance are gone.
Crash ==
    /\ loaded
    /\ loaded' = FALSE
    /\ self' = New
    /\ thr' = [t \in Threads |-> Idle]
    /\ data_lock' = "free"
    /\ last' = [last EXCEPT !.op = "crash"]
    /\ UNCHANGED <<file, options, hist>>

\* A process starts: on_loaded on a new instance.
Start ==
    /\ ~loaded
    /\ loaded' = TRUE
    /\ LET R == on_loaded(Run(self, file), options, -1, "ok")
       IN  /\ self' = R.self
           /\ file' = R.file
    /\ last' = [last EXCEPT !.op = "on_loaded"]
    /\ UNCHANGED <<options, hist, thr, data_lock>>

SaveStep == \E t \in Threads : BuildData(t) \/ Acquire(t) \/ Open(t) \/ Write(t) \/ Close(t)

NextSave == Start \/ EpochBegin \/ EpochEnd \/ HandshakeBegin \/ SaveStep \/ Crash

SpecSave == Init /\ [][NextSave]_vars

(***************************************************************************)
(* The runs with every shape of capture payload, at either hour and with   *)
(* or without a location fix.                                              *)
(***************************************************************************)
PayloadEpochs == 3

PayloadCaptures == 2

PayloadEpoch == Tick(PayloadEpochs, {"none"})

PayloadHandshake == Capture(PayloadCaptures, Payloads, Hours, GpsFixes)

NextPayload == OnLoaded \/ PayloadEpoch \/ PayloadHandshake

SpecPayload == Init /\ [][NextPayload]_vars

(***************************************************************************)
(* Steps of the specification, as the claims speak of them.                *)
(***************************************************************************)
\* The step is a completed epoch tick.
TickStep == last'.op = "on_epoch" /\ self'.epochs = self.epochs + 1

\* The step is a capture that was processed (not dropped at the entry).
CaptureStep ==
    /\ last'.op = "on_handshake"
    /\ last'.reward >= 0
    /\ self'.handshake_count = self.handshake_count + 1

\* The step applied decay and computed a loss > 0 (before the clamp).
DecayLossStep == TickStep /\ last'.lost > 0

(***************************************************************************)
(* C1.  In every state reachable by epoch ticks and captures from the      *)
(* default state, network_points >= 0.                                     *)
(***************************************************************************)
C1_PointsNonNegative == self.network_points >= 0

\* A tick whose decay computed a loss larger than the points there were: the
\* clamp acted.
C1_Witness ==
    /\ last.op = "on_epoch"
    /\ last.pre.points > 0
    /\ last.lost > last.pre.points
    /\ self.network_points = 0

(***************************************************************************)
(* C3.  streak becomes 0 in every step whose decay application computed a  *)
(* loss > 0, and decreases in no other step: a processed capture adds      *)
(* exactly 1, a tick without such a loss leaves it unchanged.              *)
(***************************************************************************)
C3_Streak ==
    [][ /\ DecayLossStep => self'.streak = 0
        /\ self'.streak < self.streak => DecayLossStep
        /\ CaptureStep => self'.streak = self.streak + 1
        /\ (TickStep /\ ~DecayLossStep) => self'.streak = self.streak ]_vars

\* A decay with a loss has just reset a streak that was running.
C3_Witness ==
    /\ last.op = "on_epoch"
    /\ last.lost > 0
    /\ last.pre.streak >= 2
    /\ self.streak = 0

(***************************************************************************)
(* C4.  The reward of a processed capture: base is the points-map entry of *)
(* the lower-cased encryption (1 when there is none); the streak goes up   *)
(* by one and, iff it is then >= 5, the reward becomes floor(reward * 1.2);*)
(* then, iff a bonus event is active with uses left, it becomes            *)
(* floor(reward * multiplier); the result is added to points (next to the  *)
(* +50 / +100 of a secret achievement unlocked by the same capture).  With *)
(* base 5 and no event, the captures that make the streak 1..4 add 5 and   *)
(* the one that makes it 5 adds 6.                                         *)
(***************************************************************************)
\* floor(floor(base * 1.2 if the new streak >= 5) * multiplier if active),
\* in exact arithmetic; s is the instance before the capture.
EventOn(s) == s.active_event # NoEvent /\ s.event_handshakes_left > 0

AfterStreak(s, base) == IF s.streak + 1 >= 5 THEN (base * 12) \div 10 ELSE base

ExactReward(s, base) ==
    IF EventOn(s)
    THEN (AfterStreak(s, base) * s.event_multiplier[1]) \div s.event_multiplier[2]
    ELSE AfterStreak(s, base)

\* The payload's encryption label, lower-cased ('' when absent or None).
LabelOf(p) ==
    IF p.ap.encryption.t = "str" THEN Lower(p.ap.encryption.v) ELSE EmptyStr

BaseOf(s, p) ==
    IF LabelOf(p) \in DOMAIN s.points_map THEN s.points_map[LabelOf(p)] ELSE 1

Achieved(report) ==
    (IF "night_owl" \in report.out THEN 50 ELSE 0)
    + (IF "crypto_king" \in report.out THEN 100 ELSE 0)

C4_RewardOrder ==
    [][CaptureStep =>
         LET base == BaseOf(self, last'.arg[1])
         IN  /\ last'.base = base
             /\ self'.streak = self.streak + 1
             /\ last'.reward = ExactReward(self, base)
             /\ self'.network_points
                   = self.network_points + ExactReward(self, base) + Achieved(last')
             /\ (base = 5 /\ ~EventOn(self) /\ self.streak < 4) => last'.reward = 5
             /\ (base = 5 /\ ~EventOn(self) /\ self.streak = 4) => last'.reward = 6]_vars

\* The capture that made the streak 5 while Signal Noise was active, with
\* base 5: floor(floor(5 * 1.2) * 0.5) = 3 (the other order would give 2).
C4_Witness ==
    /\ last.op = "on_handshake"
    /\ last.pre.streak = 4
    /\ last.base = 5
    /\ last.mult
    /\ hist.installed = SignalNoise
    /\ last.reward = 3

\* A capture of an encryption the points map lacks earned the base 1.
C4_WitnessUnknown ==
    /\ last.op = "on_handshake"
    /\ self.last_handshake_enc = <<"open">>
    /\ last.base = 1

(***************************************************************************)
(* C5.  A bonus event installed with N uses multiplies exactly the next N  *)
(* captures, unless a new installation replaces it first (the new event's  *)
(* multiplier and uses then stand, nothing is queued), and is cleared by   *)
(* the capture that consumes its last use.  In every state, no uses left   *)
(* means no active event and multiplier 1.                                 *)
(***************************************************************************)
EventFields(s) == <<s.active_event, s.event_handshakes_left, s.event_multiplier>>

C5_BonusEvent ==
    /\ [](/\ self.event_handshakes_left = 0
             => (self.active_event = NoEvent /\ self.event_multiplier = <<1, 1>>)
          /\ self.active_event # NoEvent
             => /\ self.active_event = hist.installed
                /\ self.event_multiplier = hist.installed.multiplier
                /\ hist.uses + self.event_handshakes_left = hist.installed.handshakes
          /\ self.active_event = NoEvent => hist.uses = hist.installed.handshakes)
    /\ [][/\ CaptureStep =>
               /\ last'.mult <=> EventOn(self)
               /\ EventOn(self) =>
                    /\ self'.event_handshakes_left = self.event_handshakes_left - 1
                    /\ hist'.uses = hist.uses + 1
               /\ ~EventOn(self) => EventFields(self') = EventFields(self)
          /\ (TickStep /\ "event" \in last'.out) =>
               /\ self'.active_event \in {LuckyBreak, SignalNoise}
               /\ self'.event_handshakes_left = self'.active_event.handshakes
               /\ self'.event_multiplier = self'.active_event.multiplier
          /\ (TickStep /\ "event" \notin last'.out) =>
               EventFields(self') = EventFields(self)]_vars

\* Signal Noise (N = 1) replaced a Lucky Break that had uses left, halved
\* one capture, was cleared, and the capture after that was not multiplied.
C5_Witness ==
    /\ hist.installed = SignalNoise
    /\ hist.overwrote
    /\ hist.uses = 1
    /\ self.active_event = NoEvent
    /\ last.op = "on_handshake"
    /\ last.reward >= 0
    /\ ~last.mult

\* Lucky Break (N = 5) has multiplied five captures and is cleared.
C5_WitnessLucky ==
    /\ hist.installed = LuckyBreak
    /\ hist.uses = 5
    /\ self.active_event = NoEvent
    /\ self.event_handshakes_left = 0

(***************************************************************************)
(* C6.  Title announcements are edge-triggered.  In every tick the age     *)
(* (strength) announcement fires iff the title resolved from the counter   *)
(* of that tick differs from the stored previous title, and the stored     *)
(* title then equals the resolved one; so after every completed tick the   *)
(* stored titles are the current titles, and a title change is announced   *)
(* in the tick that makes it and never again.                              *)
(***************************************************************************)
C6_EdgeTriggered ==
    /\ [](last.op = "on_epoch" =>
             /\ self.prev_age_title = get_age_title(self)
             /\ self.prev_strength_title = get_strength_title(self))
    /\ [][TickStep =>
             /\ ("age_title" \in last'.out) <=> (get_age_title(self') # self.prev_age_title)
             /\ ("strength_title" \in last'.out)
                   <=> (get_strength_title(self') # self.prev_strength_title)
             /\ self'.prev_age_title = get_age_title(self')
             /\ self'.prev_strength_title = get_strength_title(self')]_vars

\* The second age title and the first strength title have been announced,
\* and the tick after an announcement announced nothing.
C6_Witness ==
    /\ last.op = "on_epoch"
    /\ last.out \cap {"age_title", "strength_title"} = {}
    /\ self.prev_age_title = "Starling"
    /\ self.prev_strength_title = "Initiate"

(***************************************************************************)
(* C7.  For every save_data call of a callback, loading the document the  *)
(* call writes into a fresh instance reproduces every field of the         *)
(* progression state of the instance at the call: the counters, last       *)
(* active epoch, streak, previous age and strength titles, night-owl       *)
(* count, captured encryption kinds, personality points, the active bonus  *)
(* event with its multiplier and remaining uses, and the Traveler XP,      *)
(* level and seen-sets; and an unknown extra key in the document changes   *)
(* nothing.                                                                *)
(***************************************************************************)
Progression(s) ==
    [epochs |-> s.epochs, train_epochs |-> s.train_epochs,
     network_points |-> s.network_points, handshake_count |-> s.handshake_count,
     last_active_epoch |-> s.last_active_epoch, streak |-> s.streak,
     prev_age_title |-> s.prev_age_title,
     prev_strength_title |-> s.prev_strength_title,
     night_owl_handshakes |-> s.night_owl_handshakes,
     enc_types_captured |-> s.enc_types_captured,
     personality_points |-> s.personality_points,
     active_event |-> s.active_event,
     event_multiplier |-> s.event_multiplier,
     event_handshakes_left |-> s.event_handshakes_left,
     travel_xp |-> s.travel_xp, travel_level |-> s.travel_level,
     unique_essids |-> s.unique_essids, unique_bssids |-> s.unique_bssids,
     unique_ouis |-> s.unique_ouis, unique_channels |-> s.unique_channels,
     unique_bands |-> s.unique_bands, place_hashes |-> s.place_hashes,
     last_place_hash |-> s.last_place_hash]

\* A fresh instance, configured as this one, after load_data of the document.
Fresh == configure(New, options)

Reloaded(doc) == load_data(Fresh, [exists |-> TRUE, text |-> Blocks(doc)])

WithUnknownKey(doc) == doc @@ ("zz_unknown" :> PyInt(7))

C7_RoundTrip ==
    \A i \in DOMAIN last.saves :
        /\ Progression(Reloaded(Snapshot(last.saves[i]))) = Progression(last.saves[i])
        /\ Reloaded(WithUnknownKey(Snapshot(last.saves[i]))) = Reloaded(Snapshot(last.saves[i]))

\* The same for the saves taken while a bonus event is active, restricted
\* to the event's three fields.
C7_EventRoundTrip ==
    \A i \in DOMAIN last.saves :
        EventFields(Reloaded(Snapshot(last.saves[i]))) = EventFields(last.saves[i])

\* The same for all the other fields, the previous titles and the event
\* left out.
Untitled(s) ==
    [Progression(s) EXCEPT !.prev_age_title = NoStr, !.prev_strength_title = NoStr,
                           !.active_event = NoEvent, !.event_multiplier = <<1, 1>>,
                           !.event_handshakes_left = 0]

C7_OtherFieldsRoundTrip ==
    \A i \in DOMAIN last.saves :
        /\ Untitled(Reloaded(Snapshot(last.saves[i]))) = Untitled(last.saves[i])
        /\ Reloaded(WithUnknownKey(Snapshot(last.saves[i]))) = Reloaded(Snapshot(last.saves[i]))

(***************************************************************************)
(* C8.  At every instant, also when the process has stopped in the middle  *)
(* of a save, the state file holds one complete document written by some   *)
(* save, never an empty or a partial one; and a process that starts after  *)
(* a save has completed does not fall behind that save (its tick and       *)
(* capture counters are at least the saved ones).                          *)
(***************************************************************************)
C8_AtomicSave ==
    /\ file.exists => Parses(file.text)
    /\ (last.op = "on_loaded" /\ last.saves # <<>>)
          => /\ self.epochs >= last.saves[1].epochs
             /\ self.handshake_count >= last.saves[1].handshake_count

\* The second half alone: a process started after a completed save has at
\* least the saved counters.
C8_RestartKeepsProgress ==
    (last.op = "on_loaded" /\ last.saves # <<>>)
       => /\ self.epochs >= last.saves[1].epochs
          /\ self.handshake_count >= last.saves[1].handshake_count

(***************************************************************************)
(* C9.  With save_data called from the epoch thread and the capture thread *)
(* at once, at most one thread is between the opening and the closing of   *)
(* the file, that thread holds the lock, and the blocks in the file all    *)
(* come from one call: one writer, one document, each block in its place.  *)
(***************************************************************************)
Writers == {t \in Threads : thr[t].pc \in {"open", "write"}}

C9_MutualExclusion ==
    /\ Cardinality(Writers) <= 1
    /\ \A t \in Writers : data_lock = t
    /\ \A i \in DOMAIN file.text :
          /\ file.text[i].part = i
          /\ file.text[i].by = file.text[1].by
          /\ file.text[i].doc = file.text[1].doc

\* The epoch thread has written the first block of its document while the
\* capture thread, its own document built, waits for the lock.
C9_Witness ==
    /\ thr.epoch.pc = "write"
    /\ thr.epoch.pos = 1
    /\ thr.handshake.pc = "lock"
    /\ thr.handshake.data # thr.epoch.data
    /\ data_lock = "epoch"

(***************************************************************************)
(* C10.  on_handshake ignores a payload with fewer than three arguments,   *)
(* with an AP that is not a mapping, or with an AP whose encryption or     *)
(* bssid is a truthy value that is not text: the instance and the file     *)
(* stay as they are and nothing is saved.  Every other AP mapping is       *)
(* processed as a capture (streak, handshake count, last active epoch,     *)
(* personality points, one save), a missing field standing for its         *)
(* default: encryption '', essid 'unknown', bssid '', channel '0'; an      *)
(* essid or channel that cannot be hashed ends the Traveler block with the *)
(* XP unchanged.                                                           *)
(***************************************************************************)
NotText(v) == v.t \notin {"missing", "str"} /\ Truthy(v)

Dropped(p) ==
    \/ p.nargs < 3
    \/ ~p.ap.isdict
    \/ NotText(p.ap.encryption)
    \/ NotText(p.ap.bssid)

C10_WitnessDefaults ==
    /\ last.op = "on_handshake"
    /\ last.arg[1].ap = ApBare
    /\ last.base = 1
    /\ self.handshake_count = 1

\* The statement as it stands: a payload with fewer than three arguments,
\* an AP that is not a mapping, or a mapping with a missing or wrongly typed
\* field leaves the instance unchanged.
TextField(v) == v.t = "str"

ChannelField(v) == v.t \in {"str", "int"}

Malformed(p) ==
    \/ p.nargs < 3
    \/ ~p.ap.isdict
    \/ ~TextField(p.ap.encryption)
    \/ ~TextField(p.ap.essid)
    \/ ~TextField(p.ap.bssid)
    \/ ~ChannelField(p.ap.channel)

DecayIntervals == {1, 3, 11, 50}

DecayAmounts == {0, 4, 10, 11}

DecayEpochs == {2, 3, 15, 22, 49, 50, 100}

DecayLastActive == {0, 1}

DecayPoints == {0, 5, 30}

DecayStreaks == {0, 3}

InitDecay ==
    /\ \E i \in DecayIntervals, a \in DecayAmounts, e \in DecayEpochs,
          la \in DecayLastActive, pts \in DecayPoints, k \in DecayStreaks :
          /\ options = [SmallOptions EXCEPT !.decay_interval = i, !.decay_amount = a]
          /\ self = [configure(New, options) EXCEPT
                        !.epochs = e, !.last_active_epoch = la,
                        !.network_points = pts, !.streak = k]
    /\ file = NoFile
    /\ loaded = TRUE
    /\ last = Report("init", Run(New, NoFile))
    /\ hist = NoHist
    /\ thr = [t \in Threads |-> Idle]
    /\ data_lock = "free"

ApplyDecay ==
    /\ last.op = "init"
    /\ UNCHANGED loaded
    /\ Returns("apply_decay", apply_decay(Run(self, file), "ok"))

NextDecay == ApplyDecay

SpecDecay == InitDecay /\ [][NextDecay]_vars

(***************************************************************************)
(* C2.  apply_decay changes nothing when epochs - last_active_epoch is     *)
(* below decay_interval; otherwise points becomes                          *)
(* max(0, points - floor((inactive / interval) * amount)), the floor of    *)
(* the exact product.  With interval 50, amount 10, last_active 0, epochs  *)
(* 100 and points 5 the loss is 20, points 0 and the streak is reset.      *)
(***************************************************************************)
ExactLoss(s) ==
    ((s.epochs - s.last_active_epoch) * s.decay_amount) \div s.decay_interval

C2_ExactFloor ==
    [][last'.op = "apply_decay" =>
         /\ IF self.epochs - self.last_active_epoch < self.decay_interval
            THEN self' = self
            ELSE self'.network_points = Max(0, self.network_points - ExactLoss(self))
         /\ ( /\ self.decay_interval = 50 /\ self.decay_amount = 10
              /\ self.last_active_epoch = 0 /\ self.epochs = 100
              /\ self.network_points = 5 )
            => (last'.lost = 20 /\ self'.network_points = 0 /\ self'.streak = 0)]_vars

-----------------------------------------------------------------------------
\* Loading a file that this run did not write.

\* An instance as an earlier run could have left it.
Earlier ==
    [configure(New, SmallOptions) EXCEPT
       !.epochs = 2, !.network_points = 5, !.handshake_count = 1,
       !.last_active_epoch = 1, !.streak = 1,
       !.prev_age_title = "Hatchling", !.prev_strength_title = "Untrained",
       !.night_owl_handshakes = 1,
       !.enc_types_captured = {<<"wpa2">>},
       !.personality_points = [aggro |-> 1, stealth |-> 0, scholar |-> 0],
       !.travel_xp = 7, !.unique_bssids = {<<"aa", "bb", "cc", "dd", "ee", "01">>}]

OnDisk(doc) == [exists |-> TRUE, text |-> Blocks(doc)]

\* The files on_loaded can find: none, a whole document, a document cut
\* short, a JSON value that is not an object, and objects that hold a
\* number where load_data expects a list.
StoredFiles ==
    { NoFile,
      OnDisk(Snapshot(Earlier)),
      [exists |-> TRUE, text |-> <<Block(1, Snapshot(Earlier), "main")>>],
      OnDisk(JsonArray(<<>>)),
      OnDisk([Snapshot(Earlier) EXCEPT !.enc_types_captured = JsonNumber]),
      OnDisk([Snapshot(Earlier) EXCEPT !.unique_channels = JsonNumber]),
      OnDisk([Snapshot(Earlier) EXCEPT !.place_hashes = JsonNumber]) }

LoadEpochs == 5
LoadCaptures == 3

InitLoad ==
    /\ self = New
    /\ file \in StoredFiles
    /\ options = SmallOptions
    /\ loaded = FALSE
    /\ last = Report("init", Run(New, file))
    /\ hist = NoHist
    /\ thr = [t \in Threads |-> Idle]
    /\ data_lock = "free"

LoadEpoch == Tick(LoadEpochs, {"none"})

LoadHandshake == Capture(LoadCaptures, GoodPayloads, {12}, {NoGps})

NextLoad == OnLoaded \/ LoadEpoch \/ LoadHandshake

SpecLoad == InitLoad /\ [][NextLoad]_vars

\* The load of file f fails: there is no file, json.load raises, or a
\* statement of load_data raises on the parsed document.
WholeFailure(f) ==
    \/ ~f.exists
    \/ ~Parses(f.text)
    \/ ~IsObject(f.text[1].doc)

PartWayFailure(f) ==
    /\ ~WholeFailure(f)
    /\ FirstRaise(f.text[1].doc) <= Len(SetKeys)

LoadFails(f) == WholeFailure(f) \/ PartWayFailure(f)

\* C11: when the load of the persisted file fails (no file, unparsable text,
\* or a document on which load_data raises part-way), every state field keeps
\* the value it had before the load.
C11_FailedLoadKeepsDefaults ==
    [][(last'.op = "on_loaded" /\ LoadFails(file))
          => Progression(self') = Progression(self)]_vars

\* The part of C11 the code does keep: a load that fails before the first
\* assignment (no file, unparsable text, not an object) changes no field.
C11_WholeFailureKeepsDefaults ==
    [][(last'.op = "on_loaded" /\ WholeFailure(file))
          => Progression(self') = Progression(self)]_vars

\* A load that raised part-way and left some fields loaded, others default.
C11_PartiallyLoaded ==
    /\ last.op = "on_loaded"
    /\ self.epochs = Earlier.epochs
    /\ self.network_points = Earlier.network_points
    /\ self.enc_types_captured = {}
    /\ self.travel_xp = 0

-----------------------------------------------------------------------------
\* The callbacks under configurations the defaults do not cover.

ConfigEpochs == 6
ConfigCaptures == 2

\* decay_interval as configured: the small interval, or 0.
ConfigIntervals == {0, SmallOptions.decay_interval}

\* age_titles as configured: the small mapping, or one with a title from
\* epoch 0 on.
ConfigAgeTitles == {SmallOptions.age_titles, (0 :> "Egg" @@ 2 :> "Hatchling")}

InitConfig ==
    \E n \in ConfigIntervals, T \in ConfigAgeTitles :
       InitWith([SmallOptions EXCEPT !.decay_interval = n, !.age_titles = T])

ConfigEpoch == Tick(ConfigEpochs, {"none"})

ConfigHandshake == Capture(ConfigCaptures, Payloads, {12}, {NoGps})

NextConfig == OnLoaded \/ ConfigEpoch \/ ConfigHandshake

SpecConfig == InitConfig /\ [][NextConfig]_vars

\* C12: no host callback lets an error escape: whatever the configuration
\* (decay_interval = 0 included) and the input, on_loaded, on_epoch and
\* on_handshake return normally.
C12_NoErrorEscapes == last.raised = "none"

\* The part of C12 the code does keep: on_loaded and on_handshake return
\* normally, and so does on_epoch when decay_interval is not 0.
C12_AbsorbedElsewhere ==
    (last.op \in {"on_loaded", "on_handshake"} \/ self.decay_interval # 0)
        => last.raised = "none"

\* A tick that raised: the counter was incremented, nothing was saved.
C12_EscapedTick ==
    /\ last.op = "on_epoch"
    /\ last.raised = "ZeroDivisionError"
    /\ self.epochs = 1
    /\ last.saves = <<>>

-----------------------------------------------------------------------------
\* Many captures of one AP, by night and by day.

OwlEpochs == 2
OwlCaptures == 12

OwlEpoch == Tick(OwlEpochs, {"none"})

OwlHandshake == Capture(OwlCaptures, LongPayloads, Hours, {NoGps})

NextOwl == OnLoaded \/ OwlEpoch \/ OwlHandshake

SpecOwl == Init /\ [][NextOwl]_vars

\* A capture that on_handshake processed in this step.
Processed == last'.op = "on_handshake" /\ last'.reward >= 0

InWindow(hour) == hour \in {2, 3}

\* The points the two secret achievements added in this step.
SecretPoints ==
    self'.network_points - self.network_points - last'.reward

\* C13: the night-owl +50 is awarded exactly on the capture that moves the
\* night-owl counter from 9 to 10, a capture in local hour 2 or 3, and on no
\* other capture; a capture outside the window leaves the counter unchanged.
C13_NightOwlOnce ==
    [][Processed =>
         /\ ("night_owl" \in last'.out) <=>
               (self.night_owl_handshakes = 9 /\ self'.night_owl_handshakes = 10)
         /\ SecretPoints = (IF "night_owl" \in last'.out THEN 50 ELSE 0)
                           + (IF "crypto_king" \in last'.out THEN 100 ELSE 0)
         /\ self'.night_owl_handshakes =
               self.night_owl_handshakes + (IF InWindow(last'.hour) THEN 1 ELSE 0)
      ]_vars

\* The tenth night capture, with its bonus.
C13_Witness ==
    /\ last.op = "on_handshake"
    /\ "night_owl" \in last.out
    /\ last.hour = 3
    /\ self.night_owl_handshakes = 10

\* A night capture past the tenth, without the bonus.
C13_WitnessPast ==
    /\ last.op = "on_handshake"
    /\ "night_owl" \notin last.out
    /\ last.hour = 3
    /\ self.night_owl_handshakes = 11

-----------------------------------------------------------------------------
\* Captures of every configured kind of encryption, and of one that the
\* points map lacks.

KindEpochs == 2
KindCaptures == 4

KindPayloads == {[nargs |-> 3, ap |-> a] : a \in {ApHome, ApCafe, ApOpen}}

KindEpoch == Tick(KindEpochs, {"none"})

KindHandshake == Capture(KindCaptures, KindPayloads, {12}, {NoGps})

NextKind == OnLoaded \/ KindEpoch \/ KindHandshake

SpecKind == Init /\ [][NextKind]_vars

\* The configured set of known kinds.
KnownKinds == DOMAIN self.points_map

\* C14: the +100 completeness bonus is one-time: it is awarded at most once,
\* on the first capture at which the set of captured kinds equals the
\* configured set, so never on a capture that found the set already complete.
C14_CompletenessOnce ==
    [][(Processed /\ "crypto_king" \in last'.out)
          => self.enc_types_captured # KnownKinds]_vars

\* The bonus awarded a second time.
C14_AwardedTwice ==
    /\ last.op = "on_handshake"
    /\ "crypto_king" \in last.out
    /\ self.network_points >= 200

\* C20: the completeness bonus re-fires: every capture after which the set of
\* captured kinds equals the configured set gets +100, and no other capture
\* does.
C20_RefiresWhileComplete ==
    [][Processed =>
         /\ ("crypto_king" \in last'.out) <=> (self'.enc_types_captured = KnownKinds)
         /\ SecretPoints = (IF self'.enc_types_captured = KnownKinds THEN 100 ELSE 0)
                           + (IF "night_owl" \in last'.out THEN 50 ELSE 0)
      ]_vars

\* A capture that found the set complete and got the bonus again.
C20_Witness ==
    /\ last.op = "on_handshake"
    /\ "crypto_king" \in last.out
    /\ self.handshake_count = 3
    /\ self.network_points >= 200

\* C20 as stated: once the set is complete, each subsequent capture adds
\* another +100.
C20_EverySubsequentCapture ==
    [][(Processed /\ self.enc_types_captured = KnownKinds)
          => "crypto_king" \in last'.out]_vars

\* A capture of an unconfigured kind after the set was complete: no bonus,
\* and the set no longer equals the configured set.
C20_WitnessSpoiled ==
    /\ last.op = "on_handshake"
    /\ "crypto_king" \notin last.out
    /\ self.network_points >= 100
    /\ self.enc_types_captured # KnownKinds

-----------------------------------------------------------------------------
\* Traveler XP against the seen-sets, for well-formed captures with and
\* without a location, under the default grid and under a grid of 0.

TravelEpochs == 2
TravelCaptures == 3

TravelGrids == {0, New.travel_grid}

TravelPayloads == {[nargs |-> 3, ap |-> a] : a \in {ApHome, ApCafe, ApBare}}

InitTravel ==
    \E g \in TravelGrids : InitWith(SmallOptions @@ [travel_grid |-> g])

TravelEpoch == Tick(TravelEpochs, {"none"})

TravelHandshake == Capture(TravelCaptures, TravelPayloads, {12}, GpsFixes)

NextTravel == OnLoaded \/ TravelEpoch \/ TravelHandshake

SpecTravel == InitTravel /\ [][NextTravel]_vars

\* The XP due for the values an instance has recorded as seen.
NoveltyWorth(s) ==
    5 * Cardinality(s.unique_essids) + 2 * Cardinality(s.unique_bssids)
    + 3 * Cardinality(s.unique_ouis) + Cardinality(s.unique_channels)
    + 3 * Cardinality(s.unique_bands) + 10 * Cardinality(s.place_hashes)

TravelerPart(s) ==
    [travel_xp |-> s.travel_xp, travel_level |-> s.travel_level,
     unique_essids |-> s.unique_essids, unique_bssids |-> s.unique_bssids,
     unique_ouis |-> s.unique_ouis, unique_channels |-> s.unique_channels,
     unique_bands |-> s.unique_bands, place_hashes |-> s.place_hashes]

\* This step processes the capture the previous step processed, with the
\* same location source.
Replay ==
    /\ Processed
    /\ last.op = "on_handshake" /\ last.reward >= 0
    /\ last'.arg = last.arg /\ last'.gps = last.gps

\* C15: Traveler XP is awarded exactly once per distinct value recorded in
\* the five identifier sets (+5, +2, +3, +1, +3) and once per distinct place
\* (+10): a capture adds to travel_xp the worth of the values it adds to the
\* seen-sets, and a replayed capture adds nothing and changes no set.
C15_XpOncePerValue ==
    [][Processed =>
         /\ self'.travel_xp - self.travel_xp = NoveltyWorth(self') - NoveltyWorth(self)
         /\ Replay => (last'.gained = 0 /\ TravelerPart(self') = TravelerPart(self))
      ]_vars

\* The part of C15 the code does keep: a replayed capture awards nothing and
\* changes no set, and a capture whose Traveler block runs to its end is
\* awarded the worth of what it added.
C15_ReplayAndCompletedBlocks ==
    [][Processed =>
         /\ "travel_error" \notin last'.out =>
               self'.travel_xp - self.travel_xp =
                   NoveltyWorth(self') - NoveltyWorth(self)
         /\ Replay => (last'.gained = 0 /\ TravelerPart(self') = TravelerPart(self))
      ]_vars

\* Values recorded as seen for which no XP was awarded.
C15_SeenWithoutXp ==
    /\ last.op = "on_handshake"
    /\ "travel_error" \in last.out
    /\ self.unique_essids # {}
    /\ self.travel_xp = 0

\* A replayed capture that found every value seen.
C15_WitnessReplay ==
    /\ last.op = "on_handshake"
    /\ self.handshake_count = 2
    /\ last.gained = 0
    /\ self.travel_xp = 24

-----------------------------------------------------------------------------
\* The three title functions on drawn mappings, as a counter advances.

TitleCounts == 12

\* Threshold mappings: none, one threshold, several; with and without 0.
TitleMaps ==
    { <<>>,
      (0 :> "a"),
      (3 :> "b"),
      (0 :> "a" @@ 3 :> "b"),
      (2 :> "b" @@ 5 :> "c"),
      (1 :> "a" @@ 2 :> "b" @@ 7 :> "c"),
      (0 :> "a" @@ 4 :> "b" @@ 8 :> "c" @@ 12 :> "d"),
      (10 :> "a"),
      (13 :> "a" @@ 6 :> "b") }

TitlesOf(s) == <<get_age_title(s), get_strength_title(s), get_travel_title(s)>>

InitTitles ==
    \E T \in TitleMaps :
       /\ self = [New EXCEPT !.age_titles = T, !.strength_titles = T,
                             !.travel_titles = T]
       /\ file = NoFile
       /\ options = SmallOptions
       /\ loaded = FALSE
       /\ last = [Report("titles", Run(self, NoFile)) EXCEPT !.arg = TitlesOf(self)]
       /\ hist = NoHist
       /\ thr = [t \in Threads |-> Idle]
       /\ data_lock = "free"

\* The counters advance by one and the titles are resolved again.
Count ==
    /\ self.epochs < TitleCounts
    /\ self' = [self EXCEPT !.epochs = @ + 1, !.train_epochs = @ + 1,
                            !.travel_xp = @ + 1]
    /\ last' = [Report("titles", Run(self', NoFile)) EXCEPT !.arg = TitlesOf(self')]
    /\ UNCHANGED <<file, options, loaded, hist, thr, data_lock>>

NextTitles == Count

SpecTitles == InitTitles /\ [][NextTitles]_vars

\* The label of the largest key <= c, or the floor label below every key.
LargestKeyLabel(T, c, floor) ==
    LET below == {k \in DOMAIN T : k <= c}
    IN  IF below = {} THEN floor
        ELSE T[CHOOSE k \in below : \A j \in below : j <= k]

\* The rank of a label: its key, or -1 for a label that is not in T.
Rank(T, label) ==
    LET ks == {k \in DOMAIN T : T[k] = label}
    IN  IF ks = {} THEN -1 ELSE CHOOSE k \in ks : \A j \in ks : j <= k

\* C16: each title function returns the label of the largest key <= the
\* counter, or its floor label when the counter is below every key, and the
\* rank of the returned title never decreases as the counter grows.
C16_TitleResolution ==
    /\ [](last.op = "titles" =>
            /\ last.arg[1] = LargestKeyLabel(self.age_titles, self.epochs, "Unborn")
            /\ last.arg[2] = LargestKeyLabel(self.strength_titles, self.train_epochs,
                                             "Untrained")
            /\ last.arg[3] = LargestKeyLabel(self.travel_titles, self.travel_xp,
                                             "Homebody"))
    /\ [][last'.op = "titles" =>
            \A i \in 1..3 :
               Rank(self.age_titles, last'.arg[i]) >= Rank(self.age_titles, last.arg[i])
       ]_vars

\* A counter between two thresholds, and a counter below the only one.
C16_Witness ==
    /\ last.op = "titles"
    /\ self.age_titles = (2 :> "b" @@ 5 :> "c")
    /\ self.epochs = 4
    /\ last.arg = <<"b", "b", "b">>

C16_WitnessFloor ==
    /\ last.op = "titles"
    /\ self.age_titles = (10 :> "a")
    /\ self.epochs = 9
    /\ last.arg = <<"Unborn", "Untrained", "Homebody">>

-----------------------------------------------------------------------------
\* The file against the instance when a callback returns.

\* The document holds the in-memory value of every field but the two
\* previous titles.
PersistedCounters(doc, s) ==
    /\ doc.epochs = s.epochs
    /\ doc.train_epochs = s.train_epochs
    /\ doc.points = s.network_points
    /\ doc.handshakes = s.handshake_count
    /\ doc.last_active = s.last_active_epoch
    /\ doc.streak = s.streak
    /\ doc.night_owl_handshakes = s.night_owl_handshakes
    /\ SetOf(doc.enc_types_captured.items) = s.enc_types_captured
    /\ doc.personality_aggro = s.personality_points.aggro
    /\ doc.personality_stealth = s.personality_points.stealth
    /\ doc.personality_scholar = s.personality_points.scholar
    /\ doc.travel_xp = s.travel_xp
    /\ doc.travel_level = s.travel_level
    /\ PySet(doc.unique_essids.items) = s.unique_essids
    /\ SetOf(doc.unique_bssids.items) = s.unique_bssids
    /\ SetOf(doc.unique_ouis.items) = s.unique_ouis
    /\ PySet(doc.unique_channels.items) = s.unique_channels
    /\ SetOf(doc.unique_bands.items) = s.unique_bands
    /\ SetOf(doc.place_hashes.items) = s.place_hashes
    /\ doc.last_place_hash = s.last_place_hash

PersistedTitles(doc, s) ==
    /\ doc.prev_age = s.prev_age_title
    /\ doc.prev_strength = s.prev_strength_title

\* on_epoch has returned, or on_handshake has after processing its capture.
Returned ==
    /\ last.raised = "none"
    /\ \/ last.op = "on_epoch"
       \/ last.op = "on_handshake" /\ last.reward >= 0

\* C17: whenever on_epoch or on_handshake returns after a tick or a processed
\* capture, the file holds a snapshot that equals the in-memory value of
\* every persisted field.
C17_PersistedAtReturn ==
    Returned =>
       /\ file.exists /\ Parses(file.text)
       /\ PersistedCounters(file.text[1].doc, self)
       /\ PersistedTitles(file.text[1].doc, self)

\* The part of C17 the code does keep: every field but the previous titles.
C17_CountersPersistedAtReturn ==
    Returned =>
       /\ file.exists /\ Parses(file.text)
       /\ PersistedCounters(file.text[1].doc, self)

\* A capture after which the file holds a previous title the instance has
\* not announced.
C17_TitleAhead ==
    /\ last.op = "on_handshake"
    /\ last.reward >= 0
    /\ file.exists /\ Parses(file.text)
    /\ file.text[1].doc.prev_age = "Egg"
    /\ self.prev_age_title = "Unborn"

-----------------------------------------------------------------------------
\* C18: from the default state, train_epochs = floor(epochs / 10) and the
\* scholar trait equals train_epochs after any number of ticks; a tick adds
\* exactly 1 to epochs, and epochs never decreases.
C18_TrainEpochs ==
    /\ [](/\ self.train_epochs = self.epochs \div 10
          /\ self.personality_points.scholar = self.train_epochs)
    /\ [][/\ last'.op = "on_epoch" => self'.epochs = self.epochs + 1
          /\ self'.epochs >= self.epochs]_vars

\* The twentieth tick.
C18_Witness ==
    /\ last.op = "on_epoch"
    /\ self.epochs = 20
    /\ self.train_epochs = 2
    /\ self.personality_points.scholar = 2

-----------------------------------------------------------------------------
\* C19: decay cannot fire twice within one interval.  A decay with a loss
\* > 0 and every processed capture set last_active_epoch to the current
\* epoch and nothing else changes it, and a decay removes points only when
\* at least decay_interval ticks have elapsed since then.
C19_NoDoubleDecay ==
    [][/\ DecayLossStep =>
             self'.epochs - self.last_active_epoch >= self.decay_interval
       /\ (DecayLossStep \/ CaptureStep) => self'.last_active_epoch = self'.epochs
       /\ ~(DecayLossStep \/ CaptureStep) =>
             /\ self'.last_active_epoch = self.last_active_epoch
             /\ self'.network_points >= self.network_points
      ]_vars

\* A second decay, one interval after the first decay or a capture.
C19_Witness ==
    /\ last.op = "on_epoch"
    /\ last.lost > 0
    /\ self.epochs = 2 * self.decay_interval
    /\ self.last_active_epoch = self.epochs
    /\ self.handshake_count = 0

-----------------------------------------------------------------------------
\* The number of travel thresholds an XP value has reached.
ThresholdsReached(s) ==
    Cardinality({k \in DOMAIN s.travel_titles : k <= s.travel_xp})

\* C21: after every capture travel_level = max(0, thresholds reached - 1);
\* travel_xp and travel_level never decrease, and a level-up is reported
\* exactly by the capture whose recomputed level exceeds the previous one.
C21_TravelLevel ==
    /\ [](last.op = "on_handshake" =>
             self.travel_level = Max(0, ThresholdsReached(self) - 1))
    /\ [][/\ self'.travel_xp >= self.travel_xp
          /\ self'.travel_level >= self.travel_level
          /\ last'.op = "on_handshake" =>
                (("level_up" \in last'.out) <=> (self'.travel_level > self.travel_level))
       ]_vars

\* A capture that crossed the second threshold above 0.
C21_Witness ==
    /\ last.op = "on_handshake"
    /\ "level_up" \in last.out
    /\ self.travel_xp = 48
    /\ self.travel_level = 2

\* A capture that gained XP without a level-up.
C21_WitnessSameLevel ==
    /\ last.op = "on_handshake"
    /\ last.gained > 0
    /\ "level_up" \notin last.out
    /\ self.travel_level = 1

-----------------------------------------------------------------------------
\* Ticks and captures under several decay rates.

RateEpochs == 15
RateCaptures == 2

RateIntervals == {1, 2, 3, 7}

RateAmounts == {1, 4, 11}

InitRates ==
    \E n \in RateIntervals, a \in RateAmounts :
       InitWith([SmallOptions EXCEPT !.decay_interval = n, !.decay_amount = a])

RateEpoch == Tick(RateEpochs, {"none"})

RateHandshake == Capture(RateCaptures, LongPayloads, {12}, {NoGps})

NextRates == OnLoaded \/ RateEpoch \/ RateHandshake

SpecRates == InitRates /\ [][NextRates]_vars

\* C22: with decay_interval >= 1 and decay_amount >= 1, from the default
\* state, 0 <= epochs - last_active_epoch < decay_interval after every
\* completed tick; every decay that fires does so with inactivity exactly
\* decay_interval, and its loss before the clamp is exactly decay_amount.
C22_UnitFactor ==
    /\ []((last.op = "on_epoch" /\ last.raised = "none") =>
             /\ 0 <= self.epochs - self.last_active_epoch
             /\ self.epochs - self.last_active_epoch < self.decay_interval)
    /\ [][(TickStep /\ last'.lost >= 0) =>
             /\ self'.epochs - self.last_active_epoch = self.decay_interval
             /\ last'.lost = self.decay_amount]_vars

\* The second decay under interval 7 and amount 11.
C22_Witness ==
    /\ last.op = "on_epoch"
    /\ self.decay_interval = 7
    /\ self.decay_amount = 11
    /\ last.lost = 11
    /\ self.epochs = 14
    /\ self.last_active_epoch = 14

-----------------------------------------------------------------------------
\* C23: in every state reachable from the default state travel_xp equals
\* 5|essids| + 2|bssids| + 3|ouis| + |channels| + 3|bands| + 10|places|: no
\* identifier is recorded as seen without its XP, also when the place
\* fingerprint fails part-way through a capture.
C23_XpMatchesSeen == self.travel_xp = NoveltyWorth(self)

\* The part of C23 the code does keep: the equality holds as long as no
\* Traveler block has raised, and travel_xp never exceeds the worth of the
\* seen-sets.
C23_XpAtMostSeen ==
    /\ self.travel_xp <= NoveltyWorth(self)
    /\ self.travel_grid # 0 => self.travel_xp = NoveltyWorth(self)

\* Under a grid of 0: five identifiers recorded, worth 14 XP, none awarded.
C23_Unpaid ==
    /\ self.travel_grid = 0
    /\ last.op = "on_handshake"
    /\ last.gps # NoGps
    /\ NoveltyWorth(self) = 14
    /\ self.place_hashes = {}
    /\ self.travel_xp = 0

-----------------------------------------------------------------------------
\* A save_data call has just returned and no callback is running.
SavesCompleted ==
    /\ last.op = "save_data"
    /\ \A t \in Threads : thr[t].pc = "idle"

\* C24: when an epoch tick and a capture run on different threads and both
\* call save_data, once both saves have completed the file holds the latest
\* in-memory state: a snapshot taken earlier is never written over a
\* snapshot taken later.
C24_LatestSnapshotWins ==
    SavesCompleted =>
       /\ file.exists /\ Parses(file.text)
       /\ PersistedCounters(file.text[1].doc, self)

\* Both saves completed, and the file holds the snapshot the epoch thread
\* took before the capture was counted.
C24_StaleFile ==
    /\ SavesCompleted
    /\ file.exists /\ Parses(file.text)
    /\ file.text[1].by = "epoch"
    /\ file.text[1].doc.handshakes < self.handshake_count
    /\ file.text[1].doc.epochs = self.epochs

-----------------------------------------------------------------------------
\* The announcements check_achievements would make for instance s.
Owed(s) == check_achievements(Run(s, file)).out

\* C25: every save_data call writes the stored last-announced titles
\* (prev_age_title, prev_strength_title) under prev_age and prev_strength,
\* so that a restart from any saved snapshot, the one apply_decay takes in
\* the middle of a tick included, still makes every announcement that had
\* not been made at the time of the save.
C25_SavesStoredTitles ==
    \A i \in DOMAIN last.saves :
        /\ PersistedTitles(Snapshot(last.saves[i]), last.saves[i])
        /\ Owed(Reloaded(Snapshot(last.saves[i]))) = Owed(last.saves[i])

\* A save taken by apply_decay while a title announcement is owed, from
\* which a restarted process announces nothing.
C25_Suppressed ==
    /\ last.op = "on_epoch"
    /\ Len(last.saves) = 2
    /\ last.saves[1].prev_age_title # get_age_title(last.saves[1])
    /\ "age_title" \in Owed(last.saves[1])
    /\ Owed(Reloaded(Snapshot(last.saves[1]))) = {}

-----------------------------------------------------------------------------
\* Captures during the first QuietFrom epochs, then ticks only, which keep
\* occurring while the run lasts.

QuietEpochs == 90
QuietCaptures == 2
QuietFrom == 3

QuietIntervals == {1, 3}

QuietAmounts == {1, 4}

InitQuiet ==
    \E n \in QuietIntervals, a \in QuietAmounts :
       InitWith([SmallOptions EXCEPT !.decay_interval = n, !.decay_amount = a])

QuietEpoch == Tick(QuietEpochs, {"none"})

QuietHandshake ==
    /\ self.epochs < QuietFrom
    /\ Capture(QuietCaptures, LongPayloads, {12}, {NoGps})

NextQuiet == OnLoaded \/ QuietEpoch \/ QuietHandshake

\* A tick always adds one to epochs, so <<QuietEpoch>>_vars is enabled exactly
\* when the guard of the tick holds.
QuietEpochEnabled == loaded /\ self.epochs < QuietEpochs

\* The framework calls on_loaded once the plugin is loaded, and its main loop
\* keeps signalling epochs: weak fairness of both, WF_vars(QuietEpoch) being
\* written out with QuietEpochEnabled for ENABLED <<QuietEpoch>>_vars.
SpecQuiet ==
    /\ InitQuiet /\ [][NextQuiet]_vars
    /\ WF_vars(OnLoaded)
    /\ ([]<>(~QuietEpochEnabled) \/ []<><<QuietEpoch>>_vars)

\* C26: with decay_interval >= 1 and decay_amount >= 1, when ticks keep
\* occurring and no further capture occurs, points eventually is 0 and stays
\* 0, and streak eventually is 0 and stays 0.
C26_DecaysToNothing ==
    /\ <>[](self.network_points = 0)
    /\ <>[](self.streak = 0)

\* The tick that takes the last points of an instance with captures.
C26_Witness ==
    /\ last.op = "on_epoch"
    /\ self.handshake_count = QuietCaptures
    /\ last.pre.points > 0
    /\ last.pre.streak = 0
    /\ self.network_points = 0
    /\ self.streak = 0

\* The tick that resets the streak, points being left.
C26_WitnessStreak ==
    /\ last.op = "on_epoch"
    /\ last.pre.streak > 0
    /\ self.streak = 0
    /\ self.network_points > 0

====
